---- MODULE Spec2Model ----
(***************************************************************************)
(* Model of the DynamoDB item-tagging sample: CreateService (create.ts),   *)
(* ListService (list.ts) and DynamoDbUtils (dynamoDb.util.ts).             *)
(*                                                                         *)
(* Strings are modelled as the sequence of their '#'-separated segments,   *)
(* so `a#task#001` is <<"a", "task", "001">>.  Concatenation with a '#'    *)
(* in between is \o, split('#')[k] is the (k+1)-th segment, and since '#'  *)
(* sorts below every alphanumeric character the string order is the        *)
(* segment-wise lexicographic order.                                       *)
(***************************************************************************)
EXTENDS Integers, Sequences, FiniteSets, TLC

\* ------------------------------------------------------------------ bounds
MaxId == 3          \* number of distinct task ids the store can hold
MaxTags == 2        \* number of tags of a list request
MaxCount == 2       \* largest explicit page size (count) of a list request
MaxUnprocessed == 4 \* store calls of one operation that may report unprocessed items
MaxBatchTables == 2 \* number of tables a batch request spans
MaxInvocations == 2 \* number of interleaved ListService.process invocations
MaxMergeTags == 3   \* number of tags of a list request of the merge model

\* --------------------------------------------------------------- constants
MAX_LIST_RESULTS == 20
MAX_RETRIES == 3
DEFAULT_MAX_WRITE_BATCH_SIZE == 25
DEFAULT_MAX_GET_BATCH_SIZE == 100

\* ----------------------------------------------------------------- strings
\* The alphanumeric segments the model uses, in ascending string order.
IdStr == <<"001", "002", "003", "004", "005", "006">>
AtomOrder == IdStr \o <<"task", "x", "y">>
Rank(a) == CHOOSE i \in DOMAIN AtomOrder : AtomOrder[i] = a

\* JavaScript's `s < t` on strings (and DynamoDB's order on a string sort key).
RECURSIVE StrLess(_, _)
StrLess(s, t) ==
    IF t = <<>> THEN FALSE
    ELSE IF s = <<>> THEN TRUE
    ELSE IF Head(s) = Head(t) THEN StrLess(Tail(s), Tail(t))
    ELSE Rank(Head(s)) < Rank(Head(t))

\* s.split('#')[k] (k counted from 0); undefined when there is no such segment.
Undefined == <<"undefined!">>
Split(s, k) == IF k + 1 <= Len(s) THEN <<s[k + 1]>> ELSE Undefined

\* The first k elements of s (all of s if it has fewer).
Take(s, k) == SubSeq(s, 1, IF Len(s) < k THEN Len(s) ELSE k)

\* An optional value (x or undefined) is a sequence of at most one element.
None == <<>>
Some(x) == <<x>>
IsSome(o) == o # <<>>
Get(o) == o[1]

Ids == {<<IdStr[i]>> : i \in 1..MaxId}
TagNameSeq == <<"t1", "t2", "t3", "t4", "t5">>
TagName(i) == <<TagNameSeq[i]>>

\* ------------------------------------------------------------------- store
NoAttr == "undefined!"

\* Faulty variant of TaskDbItem: the key of the index siKey1-sk-index is not set.
TaskDbItem_NoIndexKey(ti) ==
    [pk |-> <<"task">> \o ti.id, sk |-> <<"task">> \o ti.id, siKey1 |-> NoAttr,
     name |-> ti.name, description |-> ti.description, tags |-> ti.tags]

TaskDbItem(ti) ==
    [pk |-> <<"task">> \o ti.id, sk |-> <<"task">> \o ti.id, siKey1 |-> "task",
     name |-> ti.name, description |-> ti.description, tags |-> ti.tags]
TagDbItem(tagName, tagValue, id) ==
    [pk |-> <<"tag">> \o tagName, sk |-> tagValue \o <<"task">> \o id, siKey1 |-> NoAttr,
     name |-> NoAttr, description |-> NoAttr, tags |-> <<>>]

\* A tag map is the sequence of its (name, value) entries in iteration order.
TagsOf(names, value) == [i \in 1..Len(names) |-> <<names[i], value>>]

VARIABLES
    table,              \* the DynamoDB table: a set of items, one per (pk, sk)
    lekAtLimit,         \* store behaviour: a page of exactly Limit items that ends
                        \* the range still carries a LastEvaluatedKey (DynamoDB) or not
    pc,                 \* position of the ListService call
    tags,               \* listIds: the tag map of the call
    paginationKey,      \* listIds: the caller's pagination key (optional)
    count,              \* listIds: the requested count (optional)
    resultsForTags,     \* listIds: per tag, the last [ids, paginationKey] response
    idsForTags,         \* listIds: per tag, the current page of ids
    listPointers,       \* listIds: per tag, the pointer into the current page
    matchedItemIds,     \* listIds: the ids matched so far
    keepGoing,          \* listIds: the merge loop's flag
    listIdsResult,      \* listIds: the returned [ids, nextToken] (optional)
    queries,            \* the dc.query calls of the current listIds call, in order
    pages,              \* the ids returned by the calls of the current chain of
                        \* continued calls, concatenated (empty when not chained)
    getReversed,        \* store behaviour: batchGet lists the items it returns in
                        \* request order or in the reverse order
    stack,              \* the running batchGetAll/batchWriteAll calls, innermost
                        \* last: [attempt, chunks, responses] each
    calls,              \* the dc.batchGet/dc.batchWrite calls of the current
                        \* operation, in order
    item,               \* CreateService.process: the item being created (optional)
    outcome,            \* what process returned or raised (optional)
    batchRet,           \* what the outermost batchGetAll/batchWriteAll call
                        \* returned (optional)
    created,            \* the items the CreateService.process calls returned
    batchRequest,       \* the outermost batch call (optional): whether it is a
                        \* batchGetAll, and its params.RequestItems
    inFlight,           \* the dc.batchGet/dc.batchWrite calls awaiting their
                        \* response: [chunk, depth] each
    pending,            \* listIds: the tags whose first-page query awaits its
                        \* response
    invocations         \* the ListService.process invocations running on one
                        \* service instance, each with the locals of its call

listVars == <<table, lekAtLimit, pc, tags, paginationKey, count, resultsForTags,
              idsForTags, listPointers, matchedItemIds, keepGoing, listIdsResult,
              queries, pages, pending>>
batchVars == <<stack, calls, item, outcome, batchRet, created, batchRequest, inFlight>>
vars == <<listVars, getReversed, batchVars, invocations>>

\* begins_with(s, p) for a prefix p whose last segment is empty (it ends in '#')
\* or is a whole segment of s.
BeginsWith(s, p) ==
    /\ Len(s) >= Len(p)
    /\ SubSeq(s, 1, Len(p) - 1) = SubSeq(p, 1, Len(p) - 1)
    /\ (p[Len(p)] = "" \/ p[Len(p)] = s[Len(p)])

RECURSIVE SortBySk(_)
SortBySk(S) ==
    IF S = {} THEN <<>>
    ELSE LET m == CHOOSE x \in S : \A y \in S : y = x \/ StrLess(x.sk, y.sk)
         IN <<m>> \o SortBySk(S \ {m})

\* Faulty variant of Query: the start key is inclusive.
Query_InclusiveStart(tbl, lek, p) ==
    LET match == {it \in tbl :
                    /\ it.pk = p.hash
                    /\ BeginsWith(it.sk, p.sort)
                    /\ (IsSome(p.ExclusiveStartKey) =>
                            ~StrLess(it.sk, Get(p.ExclusiveStartKey).sk))}
        sorted == SortBySk(match)
        n == IF Len(sorted) < p.Limit THEN Len(sorted) ELSE p.Limit
        page == SubSeq(sorted, 1, n)
        more == Len(sorted) > n \/ (n = p.Limit /\ lek)
    IN [Items |-> page, Count |-> n,
        LastEvaluatedKey |-> IF more /\ n > 0
                             THEN Some([pk |-> page[n].pk, sk |-> page[n].sk])
                             ELSE None]

\* DocumentClient.query on the table's primary index: the items of partition
\* p.hash whose sort key begins with p.sort, ascending by sort key, strictly after
\* p.ExclusiveStartKey, at most p.Limit of them.
Query(tbl, lek, p) ==
    LET match == {it \in tbl :
                    /\ it.pk = p.hash
                    /\ BeginsWith(it.sk, p.sort)
                    /\ (IsSome(p.ExclusiveStartKey) =>
                            StrLess(Get(p.ExclusiveStartKey).sk, it.sk))}
        sorted == SortBySk(match)
        n == IF Len(sorted) < p.Limit THEN Len(sorted) ELSE p.Limit
        page == SubSeq(sorted, 1, n)
        more == Len(sorted) > n \/ (n = p.Limit /\ lek)
    IN [Items |-> page, Count |-> n,
        LastEvaluatedKey |-> IF more /\ n > 0
                             THEN Some([pk |-> page[n].pk, sk |-> page[n].sk])
                             ELSE None]

\* JavaScript truthiness of an optional string.
Truthy(s) == s # Undefined /\ s # <<"">>

\* count ?? MAX_LIST_RESULTS
OrDefault(cnt) == IF IsSome(cnt) THEN Get(cnt) ELSE MAX_LIST_RESULTS

\* Faulty variant of TagQueryInput: the pagination key is ignored.
TagQueryInput_NoStart(tagName, tagValue, exclusiveStart, cnt) ==
    [hash |-> <<"tag">> \o tagName,
     sort |-> tagValue \o <<"task", "">>,
     ExclusiveStartKey |-> None,
     Limit |-> OrDefault(cnt)]

\* The QueryInput listIdsFromDbUsingTags builds.
TagQueryInput(tagName, tagValue, exclusiveStart, cnt) ==
    [hash |-> <<"tag">> \o tagName,
     sort |-> tagValue \o <<"task", "">>,
     ExclusiveStartKey |->
        IF IsSome(exclusiveStart) /\ Truthy(Get(exclusiveStart).id)
        THEN Some([pk |-> <<"tag">> \o Get(exclusiveStart).tagName,
                   sk |-> Get(exclusiveStart).tagValue \o <<"task">> \o Get(exclusiveStart).id])
        ELSE None,
     Limit |-> OrDefault(cnt)]

\* ListService.listIdsFromDbUsingTags after its query: the [ids, paginationKey]
\* (both optional) it makes of the QueryOutput.
TagQueryResponse(results) ==
    IF results.Count = 0 THEN [ids |-> None, key |-> None]
    ELSE [ids |-> Some([i \in 1..results.Count |-> Split(results.Items[i].sk, 2)]),
          key |-> IF IsSome(results.LastEvaluatedKey)
                  THEN Some([tagName |-> Split(Get(results.LastEvaluatedKey).pk, 1),
                             tagValue |-> Split(Get(results.LastEvaluatedKey).sk, 0),
                             id |-> Split(Get(results.LastEvaluatedKey).sk, 2)])
                  ELSE None]

\* ListService.listIdsFromDbUsingTags
listIdsFromDbUsingTags(tbl, lek, tagName, tagValue, exclusiveStart, cnt) ==
    TagQueryResponse(Query(tbl, lek, TagQueryInput(tagName, tagValue, exclusiveStart, cnt)))

\* ------------------------------------------------------------ CreateService
\* Faulty variant of SaveRequests: only the first tag gets a posting item.
SaveRequests_FirstTagOnly(ti) ==
    <<TaskDbItem(ti)>> \o
    [i \in 1..(IF Len(ti.tags) > 0 THEN 1 ELSE 0) |->
        TagDbItem(ti.tags[i][1], ti.tags[i][2], ti.id)]

\* The write requests CreateService.saveToDb builds: the task item, then one
\* posting item per tag.
SaveRequests(ti) ==
    <<TaskDbItem(ti)>> \o
    [i \in 1..Len(ti.tags) |-> TagDbItem(ti.tags[i][1], ti.tags[i][2], ti.id)]

\* DynamoDB put: the item replaces the item with the same (pk, sk), if any.
Put(tbl, it) == {o \in tbl : o.pk # it.pk \/ o.sk # it.sk} \cup {it}

RECURSIVE PutAll(_, _)
PutAll(tbl, its) == IF its = <<>> THEN tbl ELSE PutAll(Put(tbl, Head(its)), Tail(its))

\* -------------------------------------------------------- ListService.listIds
\* Faulty variant of At: the index is taken as 1-based.
At_OneBased(a, i) == IF 1 <= i /\ i <= Len(a) THEN a[i] ELSE Undefined

\* a[i] for a JavaScript array and a 0-based index: undefined past the end.
At(a, i) == IF i + 1 <= Len(a) THEN a[i + 1] ELSE Undefined

\* The key listIds passes for the first page of a tag.
TagPaginationKey(key, tg) ==
    Some([id |-> IF IsSome(key) THEN Get(key).id ELSE Undefined,
          tagName |-> tg[1], tagValue |-> tg[2]])

\* Faulty variant of getNextPageOfResults: no further page is ever fetched.
getNextPageOfResults_NoRefill(tbl, lek, st, tagIndex) == [st |-> st, has |-> FALSE]

\* Faulty variant of NextPage: a new page resets the pointers of all the tags.
NextPage_ResetAll(st, tagIndex, r, q) ==
    IF ~IsSome(r.ids) \/ Len(Get(r.ids)) = 0
    THEN [st |-> [st EXCEPT !.res[tagIndex] = r, !.q = Append(@, q)], has |-> FALSE]
    ELSE [st |-> [st EXCEPT !.res[tagIndex] = r, !.q = Append(@, q),
                            !.ids[tagIndex] = Get(r.ids),
                            !.ptr = [i \in DOMAIN @ |-> 0]],
          has |-> TRUE]

\* Faulty variant of NextPage: the pointer is reset but the new page of ids is
\* not stored.
NextPage_KeepPage(st, tagIndex, r, q) ==
    IF ~IsSome(r.ids) \/ Len(Get(r.ids)) = 0
    THEN [st |-> [st EXCEPT !.res[tagIndex] = r, !.q = Append(@, q)], has |-> FALSE]
    ELSE [st |-> [st EXCEPT !.res[tagIndex] = r, !.q = Append(@, q),
                            !.ptr[tagIndex] = 0],
          has |-> TRUE]

\* getNextPageOfResults(tagIndex) after its call of listIdsFromDbUsingTags, which
\* sent the query q and returned r.
NextPage(st, tagIndex, r, q) ==
    IF ~IsSome(r.ids) \/ Len(Get(r.ids)) = 0
    THEN [st |-> [st EXCEPT !.res[tagIndex] = r, !.q = Append(@, q)], has |-> FALSE]
    ELSE [st |-> [st EXCEPT !.res[tagIndex] = r, !.q = Append(@, q),
                            !.ids[tagIndex] = Get(r.ids),
                            !.ptr[tagIndex] = 0],
          has |-> TRUE]

\* Faulty variant of getNextPageOfResults: the store is queried even when the
\* last response carried no pagination key.
getNextPageOfResults_AlwaysQuery(tbl, lek, st, tagIndex) ==
    NextPage(st, tagIndex,
             listIdsFromDbUsingTags(tbl, lek, st.tags[tagIndex][1], st.tags[tagIndex][2],
                                    st.res[tagIndex].key, Some(st.count)),
             TagQueryInput(st.tags[tagIndex][1], st.tags[tagIndex][2],
                           st.res[tagIndex].key, Some(st.count)))

\* getNextPageOfResults(tagIndex) on the local state st of listIds.
getNextPageOfResults(tbl, lek, st, tagIndex) ==
    IF ~IsSome(st.res[tagIndex].key) THEN [st |-> st, has |-> FALSE]
    ELSE NextPage(st, tagIndex,
                  listIdsFromDbUsingTags(tbl, lek, st.tags[tagIndex][1], st.tags[tagIndex][2],
                                         st.res[tagIndex].key, Some(st.count)),
                  TagQueryInput(st.tags[tagIndex][1], st.tags[tagIndex][2],
                                st.res[tagIndex].key, Some(st.count)))

\* getNextItemIdFromResults(tagIndex) after its call of getNextPageOfResults,
\* which returned n.
NextItemId(n, tagIndex, tagTaskItemId) ==
    [st |-> n.st,
     id |-> IF n.has THEN At(n.st.ids[tagIndex], n.st.ptr[tagIndex]) ELSE tagTaskItemId]

\* Faulty variant of getNextItemIdFromResults: the next page is loaded as soon
\* as the pointer references the last id of the page.
getNextItemIdFromResults_Ahead(tbl, lek, st, tagIndex) ==
    IF At(st.ids[tagIndex], st.ptr[tagIndex] + 1) # Undefined
    THEN [st |-> st, id |-> At(st.ids[tagIndex], st.ptr[tagIndex])]
    ELSE NextItemId(getNextPageOfResults(tbl, lek, st, tagIndex), tagIndex,
                    At(st.ids[tagIndex], st.ptr[tagIndex]))

\* getNextItemIdFromResults(tagIndex) on the local state st of listIds.
getNextItemIdFromResults(tbl, lek, st, tagIndex) ==
    IF At(st.ids[tagIndex], st.ptr[tagIndex]) # Undefined
    THEN [st |-> st, id |-> At(st.ids[tagIndex], st.ptr[tagIndex])]
    ELSE NextItemId(getNextPageOfResults(tbl, lek, st, tagIndex), tagIndex,
                    At(st.ids[tagIndex], st.ptr[tagIndex]))

RECURSIVE ForLoop(_, _, _, _)

\* Faulty variant of ForNext: on a mismatch the pointer of the tag with the
\* larger id is advanced.
ForNext_AdvanceLarger(tbl, lek, cur, nxt, tagIndex) ==
    IF nxt.id = Undefined THEN [nxt.st EXCEPT !.keep = FALSE]
    ELSE IF cur.id = nxt.id THEN ForLoop(tbl, lek, nxt.st, tagIndex + 1)
    ELSE IF StrLess(cur.id, nxt.id)
    THEN [nxt.st EXCEPT !.ptr[tagIndex + 1] = @ + 1]
    ELSE [nxt.st EXCEPT !.ptr[tagIndex] = @ + 1]

\* Faulty variant of ForNext: a mismatch advances the pointers of both tags.
ForNext_AdvanceBoth(tbl, lek, cur, nxt, tagIndex) ==
    IF nxt.id = Undefined THEN [nxt.st EXCEPT !.keep = FALSE]
    ELSE IF cur.id = nxt.id THEN ForLoop(tbl, lek, nxt.st, tagIndex + 1)
    ELSE [nxt.st EXCEPT !.ptr[tagIndex] = @ + 1, !.ptr[tagIndex + 1] = @ + 1]

\* The body of the `for` loop of listIds once the next tag's id nxt is known.
ForNext(tbl, lek, cur, nxt, tagIndex) ==
    IF nxt.id = Undefined THEN [nxt.st EXCEPT !.keep = FALSE]
    ELSE IF cur.id = nxt.id THEN ForLoop(tbl, lek, nxt.st, tagIndex + 1)
    ELSE IF StrLess(cur.id, nxt.id)
    THEN [nxt.st EXCEPT !.ptr[tagIndex] = @ + 1]
    ELSE [nxt.st EXCEPT !.ptr[tagIndex + 1] = @ + 1]

\* Faulty variant of ForCurrent: a match does not advance the pointers.
ForCurrent_NoAdvance(tbl, lek, cur, tagIndex) ==
    IF cur.id = Undefined THEN [cur.st EXCEPT !.keep = FALSE]
    ELSE IF tagIndex = Len(cur.st.tags)
    THEN [cur.st EXCEPT !.matched = Append(@, cur.id)]
    ELSE ForNext(tbl, lek, cur,
                 getNextItemIdFromResults(tbl, lek, cur.st, tagIndex + 1), tagIndex)

\* Faulty variant of ForCurrent: a match advances the pointer of the last tag
\* only.
ForCurrent_AdvanceLast(tbl, lek, cur, tagIndex) ==
    IF cur.id = Undefined THEN [cur.st EXCEPT !.keep = FALSE]
    ELSE IF tagIndex = Len(cur.st.tags)
    THEN [cur.st EXCEPT !.matched = Append(@, cur.id),
                        !.ptr[tagIndex] = @ + 1]
    ELSE ForNext(tbl, lek, cur,
                 getNextItemIdFromResults(tbl, lek, cur.st, tagIndex + 1), tagIndex)

\* The body of the `for` loop of listIds once the current tag's id cur is known.
ForCurrent(tbl, lek, cur, tagIndex) ==
    IF cur.id = Undefined THEN [cur.st EXCEPT !.keep = FALSE]
    ELSE IF tagIndex = Len(cur.st.tags)
    THEN [cur.st EXCEPT !.matched = Append(@, cur.id),
                        !.ptr = [i \in DOMAIN @ |-> @[i] + 1]]
    ELSE ForNext(tbl, lek, cur,
                 getNextItemIdFromResults(tbl, lek, cur.st, tagIndex + 1), tagIndex)

\* One pass of the `for` loop of listIds from tagIndex on (tagIndex from 1).
ForLoop(tbl, lek, st, tagIndex) ==
    IF tagIndex > Len(st.tags) THEN st
    ELSE ForCurrent(tbl, lek, getNextItemIdFromResults(tbl, lek, st, tagIndex), tagIndex)

\* The local state of the running listIds call, as one record.
ListState ==
    [tags |-> tags, count |-> OrDefault(count), res |-> resultsForTags,
     ids |-> idsForTags, ptr |-> listPointers, matched |-> matchedItemIds,
     keep |-> keepGoing, q |-> queries]

\* Faulty variant of NextToken: a token is returned with every non-empty page.
NextToken_NonEmpty(matched, cnt) ==
    IF Len(matched) > 0 THEN Some([id |-> At(matched, Len(matched) - 1)]) ELSE None

\* The token listIds returns with the matched ids.
NextToken(matched, cnt) ==
    IF Len(matched) = cnt THEN Some([id |-> At(matched, cnt - 1)]) ELSE None

\* The [ids, nextToken] listIds returned.
Result == Get(listIdsResult)

\* The ids of a listIds result ([undefined, undefined] carries none).
ResultIds(r) == IF IsSome(r.ids) THEN Get(r.ids) ELSE <<>>

\* Faulty variant of AnyFirstPageEmpty: listIds never returns early.
AnyFirstPageEmpty_Never(first) == FALSE

\* The test of listIds for an immediate return: the first page of some tag is
\* empty.
AnyFirstPageEmpty(first) ==
    \E i \in 1..Len(first) : ~IsSome(first[i].ids) \/ Len(Get(first[i].ids)) = 0

\* listIds up to the merge loop: the first page of every tag, and the immediate
\* return when one of them is empty.  chain is the new value of pages.
ListIdsStart(tg, key, cnt, chain) ==
    LET first == [i \in 1..Len(tg) |->
                        listIdsFromDbUsingTags(table, lekAtLimit, tg[i][1], tg[i][2],
                                               TagPaginationKey(key, tg[i]),
                                               Some(OrDefault(cnt)))]
        empty == AnyFirstPageEmpty(first)
    IN /\ tags' = tg
       /\ paginationKey' = key
       /\ count' = cnt
       /\ resultsForTags' = first
       /\ idsForTags' = [i \in 1..Len(tg) |-> ResultIds(first[i])]
       /\ listPointers' = [i \in 1..Len(tg) |-> 0]
       /\ matchedItemIds' = <<>>
       /\ keepGoing' = TRUE
       /\ queries' = [i \in 1..Len(tg) |->
                         TagQueryInput(tg[i][1], tg[i][2], TagPaginationKey(key, tg[i]),
                                       Some(OrDefault(cnt)))]
       /\ pages' = chain
       /\ pending' = {}
       /\ IF empty
          THEN /\ listIdsResult' = Some([ids |-> None, token |-> None])
               /\ pc' = "returned"
          ELSE /\ listIdsResult' = None
               /\ pc' = "merge"
       /\ UNCHANGED <<table, lekAtLimit, getReversed, batchVars, invocations>>

\* Faulty variant of AllSettled: listIds goes on at the first response.
AllSettled_AtFirst(p) == TRUE

\* Promise.all(resultsForTagsFutures) resolves once no first-page query is pending.
AllSettled(p) == p = {}

\* listIds up to `await Promise.all(...)`: the for loop calls
\* listIdsFromDbUsingTags for each tag in the order of Object.keys(tags), and each
\* call runs up to its dc.query call, whose response it awaits.
ListIdsIssue(tg, key, cnt) ==
    /\ pc = "idle"
    /\ pc' = "firstPages"
    /\ tags' = tg
    /\ paginationKey' = key
    /\ count' = cnt
    /\ queries' = [i \in 1..Len(tg) |->
                      TagQueryInput(tg[i][1], tg[i][2], TagPaginationKey(key, tg[i]),
                                    Some(OrDefault(cnt)))]
    /\ pending' = 1..Len(tg)
    /\ resultsForTags' = [i \in 1..Len(tg) |-> [ids |-> None, key |-> None]]
    /\ idsForTags' = <<>>
    /\ listPointers' = <<>>
    /\ matchedItemIds' = <<>>
    /\ keepGoing' = TRUE
    /\ listIdsResult' = None
    /\ pages' = None
    /\ UNCHANGED <<table, lekAtLimit, getReversed, batchVars, invocations>>

\* The response to the first-page query of the tag at tagIndex arrives and
\* listIdsFromDbUsingTags resolves the tag's future; with the last of them
\* Promise.all resolves and listIds runs up to its `while` loop.
FirstPageResponse(tagIndex) ==
    /\ pc = "firstPages"
    /\ tagIndex \in pending
    /\ pending' = pending \ {tagIndex}
    /\ resultsForTags' = [resultsForTags EXCEPT
                            ![tagIndex] = TagQueryResponse(Query(table, lekAtLimit,
                                                                 queries[tagIndex]))]
    /\ IF AllSettled(pending')
       THEN /\ idsForTags' = [i \in 1..Len(tags) |-> ResultIds(resultsForTags'[i])]
            /\ listPointers' = [i \in 1..Len(tags) |-> 0]
            /\ IF AnyFirstPageEmpty(resultsForTags')
               THEN /\ listIdsResult' = Some([ids |-> None, token |-> None])
                    /\ pc' = "returned"
               ELSE /\ listIdsResult' = None
                    /\ pc' = "merge"
       ELSE UNCHANGED <<idsForTags, listPointers, listIdsResult, pc>>
    /\ UNCHANGED <<table, lekAtLimit, getReversed, batchVars, tags, paginationKey, count,
                   matchedItemIds, keepGoing, queries, pages, invocations>>

\* Faulty variant of AfterReject: the rejection is caught and the operation goes
\* on where it was.
AfterReject_CarryOn(at) == at

\* Where the operation is after an awaited store call rejected: no caller of the
\* call catches the error, and the operation rejects.
AfterReject(at) == "failed"

\* The error a rejected store call raises: the op-th kind of call, with its
\* request, was the issued-th call of the operation.
StoreError(op, request, issued) ==
    Some([kind |-> "error", name |-> "StoreError", op |-> op, request |-> request,
          issued |-> issued])

\* The first-page query of the tag at tagIndex rejects: Promise.all rejects, and
\* so does listIds; the other first-page queries remain pending.
FirstPageReject(tagIndex) ==
    /\ pc = "firstPages"
    /\ tagIndex \in pending
    /\ pending' = pending \ {tagIndex}
    /\ pc' = AfterReject(pc)
    /\ outcome' = StoreError("query", queries[tagIndex], Len(queries))
    /\ UNCHANGED <<table, lekAtLimit, getReversed, tags, paginationKey, count,
                   resultsForTags, idsForTags, listPointers, matchedItemIds, keepGoing,
                   listIdsResult, queries, pages, stack, calls, item, batchRet, created,
                   batchRequest, inFlight, invocations>>

\* The queries q of a pass of the `while` loop up to the k-th of the pass, which
\* rejects: getNextPageOfResults, getNextItemIdFromResults and listIds reject.
RefillRejectAt(q, k) ==
    /\ Len(q) >= Len(queries) + k
    /\ queries' = SubSeq(q, 1, Len(queries) + k)
    /\ pc' = AfterReject(pc)
    /\ outcome' = StoreError("query", q[Len(queries) + k], Len(queries) + k)

\* A pass of the `while` loop of listIds whose k-th query rejects.
RefillReject(k) ==
    /\ pc = "merge"
    /\ keepGoing /\ Len(matchedItemIds) < OrDefault(count)
    /\ RefillRejectAt(ForLoop(table, lekAtLimit, ListState, 1).q, k)
    /\ UNCHANGED <<table, lekAtLimit, getReversed, tags, paginationKey, count,
                   resultsForTags, idsForTags, listPointers, matchedItemIds, keepGoing,
                   listIdsResult, pages, pending, stack, calls, item, batchRet, created,
                   batchRequest, inFlight, invocations>>

\* The local state of listIds becomes st.
ListStateBecomes(st) ==
    /\ resultsForTags' = st.res
    /\ idsForTags' = st.ids
    /\ listPointers' = st.ptr
    /\ matchedItemIds' = st.matched
    /\ keepGoing' = st.keep
    /\ queries' = st.q

\* One pass of the `while` loop of listIds.
MergePass ==
    /\ pc = "merge"
    /\ keepGoing /\ Len(matchedItemIds) < OrDefault(count)
    /\ ListStateBecomes(ForLoop(table, lekAtLimit, ListState, 1))
    /\ UNCHANGED <<getReversed, batchVars, table, lekAtLimit, pc, tags, paginationKey, count,
                   listIdsResult, pages, pending, invocations>>

\* The end of listIds: the loop condition fails and [matchedItemIds, nextToken]
\* is returned.
ListIdsReturn ==
    /\ pc = "merge"
    /\ ~(keepGoing /\ Len(matchedItemIds) < OrDefault(count))
    /\ listIdsResult' = Some([ids |-> Some(matchedItemIds),
                              token |-> NextToken(matchedItemIds, OrDefault(count))])
    /\ pages' = IF IsSome(pages) THEN Some(Get(pages) \o matchedItemIds) ELSE None
    /\ pc' = "returned"
    /\ UNCHANGED <<getReversed, batchVars, table, lekAtLimit, tags, paginationKey, count, resultsForTags,
                   idsForTags, listPointers, matchedItemIds, keepGoing, queries, pending, invocations>>

\* -------------------------------------------------------------- DynamoDbUtils
\* A RequestItems / Responses / UnprocessedItems object is the sequence of its
\* [table, items] properties in insertion order.
TableName == "myTable"
MapHas(m, t) == \E i \in 1..Len(m) : m[i].table = t
MapGet(m, t) == (CHOOSE e \in {m[i] : i \in 1..Len(m)} : e.table = t).items
MapSet(m, t, its) ==
    IF MapHas(m, t) THEN [i \in 1..Len(m) |-> IF m[i].table = t THEN [m[i] EXCEPT !.items = its]
                                              ELSE m[i]]
    ELSE Append(m, [table |-> t, items |-> its])
MapPush(m, t, its) == MapSet(m, t, (IF MapHas(m, t) THEN MapGet(m, t) ELSE <<>>) \o its)

RECURSIVE ItemCount(_)
ItemCount(m) == IF m = <<>> THEN 0 ELSE Len(Head(m).items) + ItemCount(Tail(m))

\* Faulty variant of SplitItem: a chunk is closed only once it exceeds the
\* maximal batch size.
SplitItem_Over(acc, t, x, maxBatchSize) ==
    LET a == IF acc.chunkSize > maxBatchSize
             THEN [chunks |-> Append(acc.chunks, acc.chunk),
                   chunk |-> <<[table |-> t, items |-> <<>>]>>,
                   chunkSize |-> 0]
             ELSE acc
    IN [a EXCEPT !.chunk = MapPush(@, t, <<x>>), !.chunkSize = @ + 1]

\* Faulty variant of SplitItem: the item that finds the chunk full closes it and
\* is not added to the new chunk.
SplitItem_DropsOverflow(acc, t, x, maxBatchSize) ==
    IF acc.chunkSize >= maxBatchSize
    THEN [chunks |-> Append(acc.chunks, acc.chunk),
          chunk |-> <<[table |-> t, items |-> <<>>]>>,
          chunkSize |-> 1]
    ELSE [acc EXCEPT !.chunk = MapPush(@, t, <<x>>), !.chunkSize = @ + 1]

\* One step of the inner forEach of splitBatch*IntoChunks: the item x of table t.
SplitItem(acc, t, x, maxBatchSize) ==
    LET a == IF acc.chunkSize >= maxBatchSize
             THEN [chunks |-> Append(acc.chunks, acc.chunk),
                   chunk |-> <<[table |-> t, items |-> <<>>]>>,
                   chunkSize |-> 0]
             ELSE acc
    IN [a EXCEPT !.chunk = MapPush(@, t, <<x>>), !.chunkSize = @ + 1]

\* The inner forEach of splitBatch*IntoChunks over the items of one table, in
\* order: the first half of the items is processed before the second half.
RECURSIVE SplitItems(_, _, _, _)
SplitItems(acc, t, its, maxBatchSize) ==
    IF its = <<>> THEN acc
    ELSE IF Len(its) = 1 THEN SplitItem(acc, t, its[1], maxBatchSize)
    ELSE LET h == Len(its) \div 2
             first == SplitItems(acc, t, SubSeq(its, 1, h), maxBatchSize)
         IN IF first.chunkSize > 0
            THEN SplitItems(first, t, SubSeq(its, h + 1, Len(its)), maxBatchSize)
            ELSE first

\* The outer forEach of splitBatch*IntoChunks over the tables of the batch.
RECURSIVE SplitTables(_, _, _)
SplitTables(acc, m, maxBatchSize) ==
    IF m = <<>> THEN acc
    ELSE SplitTables(SplitItems([acc EXCEPT !.chunk = MapSet(@, Head(m).table, <<>>)],
                                Head(m).table, Head(m).items, maxBatchSize),
                     Tail(m), maxBatchSize)

\* splitBatchWriteIntoChunks and splitBatchGetIntoChunks, which differ in the
\* default of maxBatchSize only.
splitBatchIntoChunks(batch, maxBatchSize) ==
    IF ItemCount(batch) > maxBatchSize
    THEN LET a == SplitTables([chunks |-> <<>>, chunk |-> <<>>, chunkSize |-> 0],
                              batch, maxBatchSize)
         IN Append(a.chunks, a.chunk)
    ELSE <<batch>>
splitBatchWriteIntoChunks(batch) == splitBatchIntoChunks(batch, DEFAULT_MAX_WRITE_BATCH_SIZE)
splitBatchGetIntoChunks(batch) == splitBatchIntoChunks(batch, DEFAULT_MAX_GET_BATCH_SIZE)

\* Object.keys(other).forEach(t => m[t].push(...other[t])), creating m[t] as needed.
RECURSIVE MapMerge(_, _)
MapMerge(m, other) ==
    IF other = <<>> THEN m
    ELSE MapMerge(MapPush(m, Head(other).table, Head(other).items), Tail(other))

\* mergeBatchGetOutput, on the Responses of its two arguments (toMerge.Responses
\* undefined merges nothing).
\* Faulty variant of mergeBatchGetOutput: the merged Responses replace those
\* gathered so far.
mergeBatchGetOutput_Overwrite(responses, toMerge) ==
    IF IsSome(toMerge) THEN Get(toMerge) ELSE responses

mergeBatchGetOutput(responses, toMerge) ==
    IF IsSome(toMerge) THEN MapMerge(responses, Get(toMerge)) ELSE responses

\* joinChunksIntoOutputBatchWrite: the items of the remaining chunks are added to
\* the unprocessed items.
RECURSIVE joinChunksIntoOutputBatchWrite(_, _)
joinChunksIntoOutputBatchWrite(unprocessed, remaining) ==
    IF remaining = <<>> THEN unprocessed
    ELSE joinChunksIntoOutputBatchWrite(MapMerge(unprocessed, Head(remaining)),
                                        Tail(remaining))

\* The values batchGetAll and batchWriteAll return: undefined, the RequestItems
\* object of the call (its properties are table names), or an output object with
\* a Responses or an UnprocessedItems property.
RetUndefined == [kind |-> "undefined", map |-> <<>>]
RetRequestItems(m) == [kind |-> "RequestItems", map |-> m]
RetResponses(m) == [kind |-> "Responses", map |-> m]
RetUnprocessedItems(m) == [kind |-> "UnprocessedItems", map |-> m]

\* ret[name] for name in Responses, UnprocessedItems (optional; ret is not
\* undefined).  A RequestItems object has table names as its only properties, and
\* no table is named Responses or UnprocessedItems.
PropOf(ret, name) == IF ret.kind = name THEN Some(ret.map) ELSE None

\* hasUnprocessedItems
hasUnprocessedItems(ret) ==
    ret.kind # "undefined" /\ IsSome(PropOf(ret, "UnprocessedItems"))

\* ------------------------------------------- the store's batch operations
Reverse(sq) == [i \in 1..Len(sq) |-> sq[Len(sq) + 1 - i]]
SeqMinus(sq, rem) == SelectSeq(sq, LAMBDA x : \A j \in 1..Len(rem) : rem[j] # x)

\* The part of a chunk the store services when it reports u as unprocessed.
MapMinus(chunk, u) ==
    [i \in 1..Len(chunk) |->
        [chunk[i] EXCEPT !.items = SeqMinus(@, IF MapHas(u, chunk[i].table)
                                               THEN MapGet(u, chunk[i].table) ELSE <<>>)]]

\* dc.batchGet: the Responses for the serviced keys, the items the table holds.
StoreGet(tbl, rev, keys) ==
    [i \in 1..Len(keys) |->
        [table |-> keys[i].table,
         items |->
            LET has(k) == \E it \in tbl : it.pk = k.pk /\ it.sk = k.sk
                found == IF keys[i].table = TableName THEN SelectSeq(keys[i].items, has)
                         ELSE <<>>
                its == [j \in 1..Len(found) |->
                            CHOOSE it \in tbl : it.pk = found[j].pk /\ it.sk = found[j].sk]
            IN IF rev THEN Reverse(its) ELSE its]]

\* dc.batchWrite: the serviced items are put.
RECURSIVE StorePut(_, _)
StorePut(tbl, puts) ==
    IF puts = <<>> THEN tbl
    ELSE StorePut(IF Head(puts).table = TableName THEN PutAll(tbl, Head(puts).items) ELSE tbl,
                  Tail(puts))

\* What the store may report as unprocessed for a chunk: nothing, or the first
\* two items (one, if it has but one) of the first table that has items.
UnprocessedChoices(chunk) ==
    {<<>>} \cup {<<[table |-> chunk[i].table, items |-> Take(chunk[i].items, 2)]>> :
                    i \in {j \in 1..Len(chunk) :
                             /\ Len(chunk[j].items) > 0
                             /\ \A h \in 1..(j - 1) : Len(chunk[h].items) = 0}}

\* ------------------------------------------ batchGetAll and batchWriteAll
\* The value ret is returned to the call on top of stk, which awaits it as its
\* retryResponse (to the caller of the operation when stk is empty).
RECURSIVE Deliver(_, _, _)
Deliver(isGet, stk, ret) ==
    IF stk = <<>> THEN [stack |-> <<>>, status |-> "returned", ret |-> ret]
    ELSE LET n == Len(stk)
         IN IF isGet
            THEN [stack |-> [stk EXCEPT ![n].responses =
                                mergeBatchGetOutput(@, PropOf(ret, "Responses"))],
                  status |-> "running", ret |-> ret]
            ELSE IF ret.kind = "undefined"
            THEN \* retryResponse.UnprocessedItems of undefined: a TypeError
                 [stack |-> <<>>, status |-> "raised", ret |-> ret]
            ELSE IF IsSome(PropOf(ret, "UnprocessedItems"))
                    /\ Len(Get(PropOf(ret, "UnprocessedItems"))) > 0
            THEN Deliver(isGet, SubSeq(stk, 1, n - 1),
                         RetUnprocessedItems(joinChunksIntoOutputBatchWrite(
                             Get(PropOf(ret, "UnprocessedItems")), stk[n].chunks)))
            ELSE [stack |-> stk, status |-> "running", ret |-> ret]

\* batchGetAll(params, attempt) / batchWriteAll(params, attempt) up to its first
\* store call, called by the call on top of stk.
BatchCall(isGet, stk, params, attempt) ==
    IF attempt > MAX_RETRIES THEN Deliver(isGet, stk, RetRequestItems(params))
    ELSE [stack |-> Append(stk, [attempt |-> attempt,
                                 chunks |-> IF isGet THEN splitBatchGetIntoChunks(params)
                                            ELSE splitBatchWriteIntoChunks(params),
                                 responses |-> <<>>]),
          status |-> "running", ret |-> RetUndefined]

\* ListService.assembleItems
assembleItems(items) ==
    [i \in 1..Len(items) |->
        [id |-> Split(items[i].pk, 1), name |-> items[i].name,
         description |-> items[i].description, tags |-> items[i].tags]]

\* The operation continues after its batchGetAll / batchWriteAll call ended:
\* getItemsFromDb and process of ListService, saveToDb and process of
\* CreateService.
Finish(out) ==
    /\ stack' = out.stack
    /\ batchRet' = IF out.status = "returned" THEN Some(out.ret) ELSE batchRet
    /\ created' = IF out.status = "returned" /\ pc = "batchWrite"
                     /\ ~hasUnprocessedItems(out.ret)
                  THEN created \cup {Get(item)} ELSE created
    /\ IF out.status = "running" THEN UNCHANGED <<pc, outcome>>
       ELSE IF out.status = "raised"
       THEN pc' = "failed" /\ outcome' = Some([kind |-> "error", name |-> "TypeError"])
       ELSE IF pc \in {"getAll", "writeAll"}
       THEN pc' = "done" /\ outcome' = Some([kind |-> "batch", ret |-> out.ret])
       ELSE IF pc = "batchGet"
       THEN /\ pc' = "listed"
            /\ outcome' = Some([kind |-> "list",
                                items |-> IF IsSome(PropOf(out.ret, "Responses"))
                                             /\ MapHas(Get(PropOf(out.ret, "Responses")), TableName)
                                          THEN Some(assembleItems(
                                                 MapGet(Get(PropOf(out.ret, "Responses")), TableName)))
                                          ELSE Some(<<>>),
                                token |-> Result.token])
       ELSE IF hasUnprocessedItems(out.ret)
       THEN pc' = "failed" /\ outcome' = Some([kind |-> "error", name |-> "SAVE_FAILED"])
       ELSE pc' = "created" /\ outcome' = Some([kind |-> "item", item |-> Get(item)])

\* The operation is in a batchGetAll call (of ListService or of a direct caller
\* of DynamoDbUtils), or in a batchWriteAll call.
InBatchGet == pc \in {"batchGet", "getAll"}
InBatch == pc \in {"batchGet", "getAll", "batchWrite", "writeAll"}

\* The number of store calls of the operation that reported unprocessed items.
Reported == Cardinality({i \in 1..Len(calls) : calls[i].unprocessed # <<>>})

\* Faulty variant of Awaiting: the loop does not await the store's response.
Awaiting_Never(fl) == FALSE

\* The batch call is at an `await` of a store call it issued.
Awaiting(fl) == fl # <<>>

\* The `while` loop of the innermost batch call shifts its next chunk and issues
\* the dc.batchGet / dc.batchWrite call for it, whose response it awaits.
BatchIssue ==
    /\ InBatch
    /\ stack # <<>>
    /\ stack[Len(stack)].chunks # <<>>
    /\ ~Awaiting(inFlight)
    /\ inFlight' = Append(inFlight, [chunk |-> Head(stack[Len(stack)].chunks),
                                      depth |-> Len(stack)])
    /\ stack' = [stack EXCEPT ![Len(stack)].chunks = Tail(@)]
    /\ UNCHANGED <<table, lekAtLimit, getReversed, pc, tags, paginationKey, count,
                   resultsForTags, idsForTags, listPointers, matchedItemIds, keepGoing,
                   listIdsResult, queries, pages, pending, calls, item, outcome, batchRet,
                   created, batchRequest, invocations>>

\* The response of the store to the awaited dc.batchGet / dc.batchWrite call, with
\* u reported as unprocessed, and the batch call up to its next store call.
BatchStoreCall(u) ==
    /\ InBatch
    /\ stack # <<>>
    /\ inFlight # <<>>
    /\ LET n == Len(stack)
           isGet == InBatchGet
           chunk == Head(inFlight).chunk
           serviced == MapMinus(chunk, u)
           responses == IF isGet THEN StoreGet(table, getReversed, serviced) ELSE <<>>
           shifted == [stack EXCEPT ![n].responses =
                                        IF isGet THEN mergeBatchGetOutput(@, Some(responses))
                                        ELSE @]
       IN /\ u # <<>> => Reported < MaxUnprocessed
          /\ table' = IF isGet THEN table ELSE StorePut(table, serviced)
          /\ calls' = Append(calls, [request |-> chunk, unprocessed |-> u,
                                     responses |-> responses, depth |-> n])
          /\ IF u = <<>> THEN stack' = shifted /\ UNCHANGED <<pc, outcome, batchRet, created>>
             ELSE Finish(BatchCall(isGet, [shifted EXCEPT ![n].attempt = @ + 1],
                                   u, stack[n].attempt))
    /\ inFlight' = Tail(inFlight)
    /\ UNCHANGED <<lekAtLimit, getReversed, tags, paginationKey, count, resultsForTags,
                   idsForTags, listPointers, matchedItemIds, keepGoing, listIdsResult,
                   queries, pages, pending, item, batchRequest, invocations>>

\* The awaited dc.batchGet / dc.batchWrite call rejects: the batch call, the
\* batch calls that await it as their retry, and the operation reject.
BatchReject ==
    /\ InBatch
    /\ inFlight # <<>>
    /\ pc' = AfterReject(pc)
    /\ outcome' = StoreError(IF InBatchGet THEN "batchGet" ELSE "batchWrite",
                             Head(inFlight).chunk, Len(queries) + Len(calls) + 1)
    /\ stack' = <<>>
    /\ inFlight' = <<>>
    /\ UNCHANGED <<table, lekAtLimit, getReversed, tags, paginationKey, count,
                   resultsForTags, idsForTags, listPointers, matchedItemIds, keepGoing,
                   listIdsResult, queries, pages, pending, calls, item, batchRet, created,
                   batchRequest, invocations>>

\* The innermost batch call has no chunk left and returns.
BatchReturn ==
    /\ InBatch
    /\ stack # <<>>
    /\ inFlight = <<>>
    /\ stack[Len(stack)].chunks = <<>>
    /\ Finish(Deliver(InBatchGet, SubSeq(stack, 1, Len(stack) - 1),
                      IF InBatchGet THEN RetResponses(stack[Len(stack)].responses)
                      ELSE RetUndefined))
    /\ UNCHANGED <<table, lekAtLimit, getReversed, tags, paginationKey, count,
                   resultsForTags, idsForTags, listPointers, matchedItemIds, keepGoing,
                   listIdsResult, queries, pages, pending, calls, item, batchRequest, inFlight, invocations>>

\* Faulty variant of GetKeys: the last id gets no key.
GetKeys_DropLast(taskIds) ==
    [i \in 1..(Len(taskIds) - 1) |->
        [pk |-> <<"task">> \o taskIds[i], sk |-> <<"task">> \o taskIds[i]]]

\* The keys ListService.getItemsFromDb asks for.
GetKeys(taskIds) ==
    [i \in 1..Len(taskIds) |-> [pk |-> <<"task">> \o taskIds[i], sk |-> <<"task">> \o taskIds[i]]]

\* ListService.process after listIds returned: the items of the matched ids are
\* fetched with batchGetAll, if any id matched.
ListExpand ==
    /\ pc = "returned"
    /\ IF Len(ResultIds(Result)) > 0
       THEN /\ pc' = "batchGet"
            /\ stack' = BatchCall(TRUE, <<>>,
                            <<[table |-> TableName, items |-> GetKeys(ResultIds(Result))]>>,
                            1).stack
            /\ batchRequest' =
                  Some([isGet |-> TRUE,
                        RequestItems |-> <<[table |-> TableName,
                                            items |-> GetKeys(ResultIds(Result))]>>])
            /\ outcome' = None
       ELSE /\ pc' = "listed"
            /\ stack' = <<>>
            /\ batchRequest' = None
            /\ outcome' = Some([kind |-> "list", items |-> None, token |-> None])
    /\ inFlight' = <<>>
    /\ calls' = <<>>
    /\ batchRet' = None
    /\ UNCHANGED created
    /\ UNCHANGED <<table, lekAtLimit, getReversed, tags, paginationKey, count,
                   resultsForTags, idsForTags, listPointers, matchedItemIds, keepGoing,
                   listIdsResult, queries, pages, pending, item, invocations>>

\* CreateService.process(ti) with the generated id: the item is validated, gets
\* its id and is saved with batchWriteAll.
CreateProcess(ti, id) ==
    /\ pc = "idle"
    /\ ti.name # "" /\ ti.name # NoAttr
    /\ item' = Some([ti EXCEPT !.id = id])
    /\ pc' = "batchWrite"
    /\ stack' = BatchCall(FALSE, <<>>,
                          <<[table |-> TableName,
                             items |-> SaveRequests([ti EXCEPT !.id = id])]>>, 1).stack
    /\ batchRequest' = Some([isGet |-> FALSE,
                             RequestItems |-> <<[table |-> TableName,
                                                 items |-> SaveRequests([ti EXCEPT !.id = id])]>>])
    /\ inFlight' = <<>>
    /\ calls' = <<>>
    /\ outcome' = None
    /\ batchRet' = None
    /\ UNCHANGED created
    /\ UNCHANGED <<table, lekAtLimit, getReversed, tags, paginationKey, count,
                   resultsForTags, idsForTags, listPointers, matchedItemIds, keepGoing,
                   listIdsResult, queries, pages, pending, invocations>>

\* CreateService.process(ti) with an item the validation refuses: ow raises an
\* ArgumentError at the first statement, before item.id is set and saveToDb called.
CreateInvalid(ti) ==
    /\ pc = "idle"
    /\ ~(ti.name # "" /\ ti.name # NoAttr)
    /\ item' = Some(ti)
    /\ pc' = "failed"
    /\ outcome' = Some([kind |-> "error", name |-> "ArgumentError"])
    /\ UNCHANGED <<table, lekAtLimit, getReversed, tags, paginationKey, count,
                   resultsForTags, idsForTags, listPointers, matchedItemIds, keepGoing,
                   listIdsResult, queries, pages, pending, stack, calls, batchRet, created,
                   batchRequest, inFlight, invocations>>

\* Faulty variant of handleError: every error is answered with status 500.
handleError_Always500(e) == [statusCode |-> 500, message |-> e.name]

\* handleError of the handlers: the response made of an error.
handleError(e) ==
    IF e.name = "ArgumentError" THEN [statusCode |-> 400, message |-> e.name]
    ELSE [statusCode |-> 500, message |-> e.name]

\* The create handler after service.process settled: 201 with the saved item, or
\* the response handleError makes of the error caught.
CreateHandlerReturn ==
    /\ pc \in {"created", "failed"}
    /\ IsSome(item)
    /\ pc' = "responded"
    /\ outcome' = Some([kind |-> "response",
                        of |-> Get(outcome),
                        response |-> IF pc = "created"
                                     THEN [statusCode |-> 201, message |-> ""]
                                     ELSE handleError(Get(outcome))])
    /\ UNCHANGED <<table, lekAtLimit, getReversed, tags, paginationKey, count,
                   resultsForTags, idsForTags, listPointers, matchedItemIds, keepGoing,
                   listIdsResult, queries, pages, pending, stack, calls, item, batchRet,
                   created, batchRequest, inFlight, invocations>>

\* DocumentClient.query on the index siKey1-sk-index: the items whose siKey1 is
\* p.hash, ascending by sk, strictly after p.ExclusiveStartKey, at most p.Limit.
IndexQuery(tbl, lek, p) ==
    LET match == {it \in tbl :
                    /\ it.siKey1 = p.hash
                    /\ (IsSome(p.ExclusiveStartKey) =>
                            StrLess(Get(p.ExclusiveStartKey).sk, it.sk))}
        sorted == SortBySk(match)
        n == IF Len(sorted) < p.Limit THEN Len(sorted) ELSE p.Limit
        page == SubSeq(sorted, 1, n)
        more == Len(sorted) > n \/ (n = p.Limit /\ lek)
    IN [Items |-> page, Count |-> n,
        LastEvaluatedKey |-> IF more /\ n > 0
                             THEN Some([pk |-> page[n].pk, sk |-> page[n].sk,
                                        siKey1 |-> page[n].siKey1])
                             ELSE None]

\* The QueryInput listItemsFromDb builds.
IndexQueryInput(exclusiveStart, cnt) ==
    [IndexName |-> "siKey1-sk-index",
     hash |-> "task",
     ExclusiveStartKey |->
        IF IsSome(exclusiveStart) /\ Truthy(Get(exclusiveStart).id)
        THEN Some([pk |-> <<"task">> \o Get(exclusiveStart).id,
                   sk |-> <<"task">> \o Get(exclusiveStart).id,
                   siKey1 |-> "task"])
        ELSE None,
     Limit |-> OrDefault(cnt)]

\* Faulty variant of IndexQueryResponse: no pagination key is returned.
IndexQueryResponse_NoToken(results) ==
    IF results.Count = 0 THEN [items |-> None, token |-> None]
    ELSE [items |-> Some(assembleItems(results.Items)), token |-> None]

\* ListService.listItemsFromDb after its query: the [items, paginationKey] it
\* makes of the QueryOutput.
IndexQueryResponse(results) ==
    IF results.Count = 0 THEN [items |-> None, token |-> None]
    ELSE [items |-> Some(assembleItems(results.Items)),
          token |-> IF IsSome(results.LastEvaluatedKey)
                    THEN Some([id |-> Split(Get(results.LastEvaluatedKey).pk, 1)])
                    ELSE None]

\* Faulty variant of FilterByTags: the tags are never used as a filter.
FilterByTags_Never(tg) == FALSE

\* Object.keys(tags ?? {}).length > 0, the tags absent or a map
FilterByTags(tg) == IsSome(tg) /\ Len(Get(tg)) > 0

\* ListService.process without a tag filter, up to the dc.query call of
\* listItemsFromDb, whose response it awaits.
ListItemsIssue(tg, key, cnt) ==
    /\ pc = "idle"
    /\ pc' = "indexQuery"
    /\ tags' = IF IsSome(tg) THEN Get(tg) ELSE <<>>
    /\ paginationKey' = key
    /\ count' = cnt
    /\ queries' = <<IndexQueryInput(key, cnt)>>
    /\ UNCHANGED <<table, lekAtLimit, getReversed, resultsForTags, idsForTags,
                   listPointers, matchedItemIds, keepGoing, listIdsResult, pages, pending,
                   batchVars, invocations>>

\* The response to the index query arrives: listItemsFromDb and process return.
ListItemsReturn ==
    /\ pc = "indexQuery"
    /\ pc' = "listed"
    /\ outcome' = LET r == IndexQueryResponse(IndexQuery(table, lekAtLimit, queries[1]))
                  IN Some([kind |-> "list", items |-> r.items, token |-> r.token])
    /\ UNCHANGED <<table, lekAtLimit, getReversed, tags, paginationKey, count,
                   resultsForTags, idsForTags, listPointers, matchedItemIds, keepGoing,
                   listIdsResult, queries, pages, pending, stack, calls, item, batchRet,
                   created, batchRequest, inFlight, invocations>>

\* The index query rejects: listItemsFromDb and process reject.
ListItemsReject ==
    /\ pc = "indexQuery"
    /\ pc' = AfterReject(pc)
    /\ outcome' = StoreError("query", queries[1], Len(queries))
    /\ UNCHANGED <<table, lekAtLimit, getReversed, tags, paginationKey, count,
                   resultsForTags, idsForTags, listPointers, matchedItemIds, keepGoing,
                   listIdsResult, queries, pages, pending, stack, calls, item, batchRet,
                   created, batchRequest, inFlight, invocations>>

\* A direct call of DynamoDbUtils.batchGetAll(params) or batchWriteAll(params),
\* up to its first store call.
BatchAll(isGet, requestItems) ==
    /\ pc = "idle"
    /\ pc' = IF isGet THEN "getAll" ELSE "writeAll"
    /\ stack' = BatchCall(isGet, <<>>, requestItems, 1).stack
    /\ batchRequest' = Some([isGet |-> isGet, RequestItems |-> requestItems])
    /\ inFlight' = <<>>
    /\ calls' = <<>>
    /\ outcome' = None
    /\ batchRet' = None
    /\ UNCHANGED <<table, lekAtLimit, getReversed, tags, paginationKey, count,
                   resultsForTags, idsForTags, listPointers, matchedItemIds, keepGoing,
                   listIdsResult, queries, pages, pending, item, created, invocations>>

\* ------------------------------------------------------------ the list model
\* The requests of the list model: the first n tag names, each with value x.
ListTagChoices == {TagsOf([i \in 1..n |-> TagName(i)], <<"x">>) : n \in 1..MaxTags}
CountChoices == {None} \cup {Some(k) : k \in 1..MaxCount}
KeyChoices == {None} \cup {Some([id |-> id]) : id \in Ids}

\* A task item as CreateService.process saves it.
TaskOf(id, tg) == [id |-> id, name |-> "n", description |-> "d", tags |-> tg]

\* The tables CreateService can have built: every task of Ids, each carrying any
\* subset of the tags t1..tMaxTags with value x.
TablesWithTags(m) ==
    {UNION {{SaveRequests(TaskOf(<<IdStr[i]>>,
                TagsOf(SelectSeq([j \in 1..m |-> TagName(j)],
                                 LAMBDA nm : \E j \in f[i] : nm = TagName(j)), <<"x">>)))[k]
              : k \in 1..(1 + Cardinality(f[i]))} : i \in 1..MaxId}
       : f \in [1..MaxId -> SUBSET (1..m)]}
ListTables == TablesWithTags(MaxTags)

ListInit ==
    /\ table \in ListTables
    /\ lekAtLimit \in BOOLEAN
    /\ pc = "idle"
    /\ tags = <<>>
    /\ paginationKey = None
    /\ count = None
    /\ resultsForTags = <<>>
    /\ idsForTags = <<>>
    /\ listPointers = <<>>
    /\ matchedItemIds = <<>>
    /\ keepGoing = TRUE
    /\ listIdsResult = None
    /\ queries = <<>>
    /\ pages = None
    /\ getReversed = FALSE
    /\ stack = <<>>
    /\ calls = <<>>
    /\ item = None
    /\ outcome = None
    /\ batchRet = None
    /\ created = {}
    /\ batchRequest = None
    /\ inFlight = <<>>
    /\ pending = {}
    /\ invocations = <<>>

\* The tag names that have postings in the table.
TableTagNames(tbl) == {<<it.pk[2]>> : it \in {o \in tbl : o.pk[1] = "tag"}}

\* A caller calls listIds for all the tags the table carries, with or without a
\* pagination key of its choice.
ListCall ==
    /\ pc = "idle"
    /\ \E tg \in ListTagChoices, key \in KeyChoices, cnt \in CountChoices :
          /\ TableTagNames(table) \subseteq {tg[i][1] : i \in 1..Len(tg)}
          /\ ListIdsStart(tg, key, cnt, IF IsSome(key) THEN None ELSE Some(<<>>))

\* The call is over and its local state is discarded.
ListDone ==
    /\ pc = "returned"
    /\ pc' = "idle"
    /\ tags' = <<>>
    /\ paginationKey' = None
    /\ count' = None
    /\ resultsForTags' = <<>>
    /\ idsForTags' = <<>>
    /\ listPointers' = <<>>
    /\ matchedItemIds' = <<>>
    /\ keepGoing' = TRUE
    /\ listIdsResult' = None
    /\ queries' = <<>>
    /\ pages' = None
    /\ pending' = {}
    /\ UNCHANGED <<table, lekAtLimit, getReversed, batchVars, invocations>>

\* The caller of a chain of calls feeds the returned token into the next call.
ListContinue ==
    /\ pc = "returned"
    /\ IsSome(pages)
    /\ IsSome(Get(listIdsResult).token)
    /\ ListIdsStart(tags, Get(listIdsResult).token, count, pages)

ListNext == ListCall \/ ListContinue \/ MergePass \/ ListIdsReturn \/ ListDone

SpecList == ListInit /\ [][ListNext]_vars

\* ----------------------------------------------------------- the merge model
\* listIds merging the posting lists of up to MaxMergeTags tags.
MergeTagChoices == {TagsOf([i \in 1..n |-> TagName(i)], <<"x">>) : n \in 1..MaxMergeTags}

MergeInit ==
    /\ table \in TablesWithTags(MaxMergeTags)
    /\ lekAtLimit \in BOOLEAN
    /\ pc = "idle"
    /\ tags = <<>>
    /\ paginationKey = None
    /\ count = None
    /\ resultsForTags = <<>>
    /\ idsForTags = <<>>
    /\ listPointers = <<>>
    /\ matchedItemIds = <<>>
    /\ keepGoing = TRUE
    /\ listIdsResult = None
    /\ queries = <<>>
    /\ pages = None
    /\ getReversed = FALSE
    /\ stack = <<>>
    /\ calls = <<>>
    /\ item = None
    /\ outcome = None
    /\ batchRet = None
    /\ created = {}
    /\ batchRequest = None
    /\ inFlight = <<>>
    /\ pending = {}
    /\ invocations = <<>>

\* A caller calls listIds for all the tags the table carries.
MergeCall ==
    /\ pc = "idle"
    /\ \E tg \in MergeTagChoices, cnt \in CountChoices :
          /\ TableTagNames(table) \subseteq {tg[i][1] : i \in 1..Len(tg)}
          /\ ListIdsStart(tg, None, cnt, None)

MergeNext == MergeCall \/ MergePass \/ ListIdsReturn \/ ListDone

SpecMerge == MergeInit /\ [][MergeNext]_vars

\* ----------------------------------------------------------- the batch model
\* The sizes of the requests of the batch model: below, just above and at three
\* times the store's ceilings.
GetSizes == {1, 2, DEFAULT_MAX_GET_BATCH_SIZE + 1, MAX_RETRIES * DEFAULT_MAX_GET_BATCH_SIZE + 1}
WriteTagCounts == {1, 2, DEFAULT_MAX_WRITE_BATCH_SIZE, MAX_RETRIES * DEFAULT_MAX_WRITE_BATCH_SIZE}

\* The ids of the tasks of the batch model's table.
BatchIds(k) == [i \in 1..k |-> <<ToString(i)>>]
BatchTable == {TaskDbItem(TaskOf(<<ToString(i)>>, <<>>)) :
                 i \in 1..(MAX_RETRIES * DEFAULT_MAX_GET_BATCH_SIZE + 1)}

BatchInit ==
    /\ table = BatchTable
    /\ lekAtLimit = TRUE
    /\ getReversed \in BOOLEAN
    /\ pc = "idle"
    /\ tags = <<>>
    /\ paginationKey = None
    /\ count = None
    /\ resultsForTags = <<>>
    /\ idsForTags = <<>>
    /\ listPointers = <<>>
    /\ matchedItemIds = <<>>
    /\ keepGoing = TRUE
    /\ listIdsResult = None
    /\ queries = <<>>
    /\ pages = None
    /\ stack = <<>>
    /\ calls = <<>>
    /\ item = None
    /\ outcome = None
    /\ batchRet = None
    /\ created = {}
    /\ batchRequest = None
    /\ inFlight = <<>>
    /\ pending = {}
    /\ invocations = <<>>

\* ListService.process at the return of listIds with the first k ids of the
\* table, with or without a token.
ListIdsReturned ==
    /\ pc = "idle"
    /\ \E k \in GetSizes, withToken \in BOOLEAN :
          listIdsResult' = Some([ids |-> Some(BatchIds(k)),
                                 token |-> IF withToken THEN Some([id |-> <<ToString(k)>>])
                                           ELSE None])
    /\ pc' = "returned"
    /\ UNCHANGED <<table, lekAtLimit, getReversed, tags, paginationKey, count,
                   resultsForTags, idsForTags, listPointers, matchedItemIds, keepGoing,
                   queries, pages, pending, batchVars, invocations>>

\* A caller creates a task with t tags.
BatchCreate ==
    \E t \in WriteTagCounts :
        CreateProcess(TaskOf(Undefined, TagsOf([i \in 1..t |-> <<ToString(i)>>], <<"x">>)),
                      <<"new">>)

BatchStore ==
    /\ inFlight # <<>>
    /\ \E u \in UnprocessedChoices(Head(inFlight).chunk) : BatchStoreCall(u)

BatchNext ==
    ListIdsReturned \/ ListExpand \/ BatchCreate \/ BatchIssue \/ BatchStore \/ BatchReturn

SpecBatch == BatchInit /\ [][BatchNext]_vars

\* ------------------------------------------------------ the end-to-end model
\* The tag maps of the end-to-end model: each of the names t1..tMaxTags is absent
\* or carries the value x or y.
E2ETagMap(f) ==
    LET present == SelectSeq([j \in 1..MaxTags |-> j], LAMBDA j : f[j] # "-")
    IN [i \in 1..Len(present) |-> <<TagName(present[i]), <<f[present[i]]>>>>]
E2ETagMaps == {E2ETagMap(f) : f \in [1..MaxTags -> {"-", "x", "y"}]}

E2EInit ==
    /\ table = {}
    /\ lekAtLimit \in BOOLEAN
    /\ getReversed = lekAtLimit
    /\ pc = "idle"
    /\ tags = <<>>
    /\ paginationKey = None
    /\ count = None
    /\ resultsForTags = <<>>
    /\ idsForTags = <<>>
    /\ listPointers = <<>>
    /\ matchedItemIds = <<>>
    /\ keepGoing = TRUE
    /\ listIdsResult = None
    /\ queries = <<>>
    /\ pages = None
    /\ stack = <<>>
    /\ calls = <<>>
    /\ item = None
    /\ outcome = None
    /\ batchRet = None
    /\ created = {}
    /\ batchRequest = None
    /\ inFlight = <<>>
    /\ pending = {}
    /\ invocations = <<>>

\* The create handler: a task with any tag map is created, the uidGenerator
\* yielding an id no created task has.
E2ECreate ==
    \E id \in Ids, tg \in E2ETagMaps :
        /\ \A r \in created : r.id # id
        /\ CreateProcess(TaskOf(Undefined, tg), id)

\* The create handler returned the item.
E2ECreated ==
    /\ pc = "created"
    /\ pc' = "idle"
    /\ item' = None
    /\ outcome' = None
    /\ calls' = <<>>
    /\ batchRet' = None
    /\ batchRequest' = None
    /\ UNCHANGED <<table, lekAtLimit, getReversed, tags, paginationKey, count,
                   resultsForTags, idsForTags, listPointers, matchedItemIds, keepGoing,
                   listIdsResult, queries, pages, pending, stack, created, inFlight, invocations>>

\* The list handler: the tasks carrying a non-empty tag map are listed from the
\* start.
E2EList ==
    /\ pc = "idle"
    /\ \E tg \in E2ETagMaps \ {<<>>}, cnt \in CountChoices : ListIdsStart(tg, None, cnt, None)

\* The store services every batch fully.
E2EStore ==
    /\ inFlight # <<>>
    /\ BatchStoreCall(<<>>)

E2ENext ==
    E2ECreate \/ BatchIssue \/ E2EStore \/ BatchReturn \/ E2ECreated \/ E2EList \/ MergePass
        \/ ListIdsReturn \/ ListExpand

SpecE2E == E2EInit /\ [][E2ENext]_vars

\* --------------------------------------------------------- the posting model
\* Tasks are created with one tag whose value may hold the separator '#'
\* ('x', 'y' and 'x#task#y'), and the posting list of a (name, value) is read.
PostingValues == {<<"x">>, <<"y">>, <<"x", "task", "y">>}

\* The create handler: a task with the tag t1 is created under a fresh id.
PostingCreate ==
    \E id \in Ids, v \in PostingValues :
        /\ \A r \in created : r.id # id
        /\ CreateProcess(TaskOf(Undefined, <<<<TagName(1), v>>>>), id)

\* listIds is called for the tag t1 with one of the values.
PostingList ==
    /\ pc = "idle"
    /\ \E v \in PostingValues : ListIdsStart(<<<<TagName(1), v>>>>, None, None, None)

PostingNext ==
    PostingCreate \/ BatchIssue \/ E2EStore \/ BatchReturn \/ E2ECreated \/ PostingList
        \/ MergePass \/ ListIdsReturn \/ ListDone

SpecPosting == E2EInit /\ [][PostingNext]_vars

\* ------------------------------------------------------------ the split model
\* The requests of the split model span up to MaxBatchTables tables, each with a
\* number of items around the ceiling c of the store: none, few, just below, at and
\* just above the ceiling, and above twice the ceiling.
SplitSizes(c) == {0, 1, c - 1, c, c + 1, c + 5, c + c + 1}
SplitTableName(i) == IF i = 1 THEN TableName ELSE "table" \o ToString(i)

\* The i-th key / put-item of the request for table t.
SplitEntry(t, i) == [pk |-> <<t, ToString(i)>>, sk |-> <<t, ToString(i)>>]

\* The RequestItems with sizes[i] entries for the i-th table.
SplitRequest(sizes) ==
    [i \in 1..Len(sizes) |->
        [table |-> SplitTableName(i),
         items |-> [j \in 1..sizes[i] |-> SplitEntry(SplitTableName(i), j)]]]

SplitInit ==
    /\ table = {}
    /\ lekAtLimit = TRUE
    /\ getReversed = FALSE
    /\ pc = "idle"
    /\ tags = <<>>
    /\ paginationKey = None
    /\ count = None
    /\ resultsForTags = <<>>
    /\ idsForTags = <<>>
    /\ listPointers = <<>>
    /\ matchedItemIds = <<>>
    /\ keepGoing = TRUE
    /\ listIdsResult = None
    /\ queries = <<>>
    /\ pages = None
    /\ stack = <<>>
    /\ calls = <<>>
    /\ item = None
    /\ outcome = None
    /\ batchRet = None
    /\ created = {}
    /\ batchRequest = None
    /\ inFlight = <<>>
    /\ pending = {}
    /\ invocations = <<>>

\* A caller hands a request to batchGetAll.
SplitGet ==
    \E n \in 1..MaxBatchTables :
        \E sizes \in [1..n -> SplitSizes(DEFAULT_MAX_GET_BATCH_SIZE)] :
            BatchAll(TRUE, SplitRequest(sizes))

\* A caller hands a request to batchWriteAll.
SplitWrite ==
    \E n \in 1..MaxBatchTables :
        \E sizes \in [1..n -> SplitSizes(DEFAULT_MAX_WRITE_BATCH_SIZE)] :
            BatchAll(FALSE, SplitRequest(sizes))

SplitNext == SplitGet \/ SplitWrite \/ BatchIssue \/ E2EStore \/ BatchReturn

SpecSplit == SplitInit /\ [][SplitNext]_vars

\* ------------------------------------------------------ the interleave model
\* Several ListService.process(tags, paginationKey, count) invocations run on one
\* service instance, interleaved at their awaits, against an unchanging table.
\* The instance holds dc, tableName, dynamoDbUtils and MAX_LIST_RESULTS only; the
\* locals of listIds belong to the invocation.

\* The locals of a listIds call with request req after its first pages first.
InvFirstState(req, first) ==
    [tags |-> req.tags, count |-> OrDefault(req.count), res |-> first,
     ids |-> [i \in 1..Len(req.tags) |-> ResultIds(first[i])],
     ptr |-> [i \in 1..Len(req.tags) |-> 0],
     matched |-> <<>>,
     keep |-> TRUE,
     q |-> [i \in 1..Len(req.tags) |->
              TagQueryInput(req.tags[i][1], req.tags[i][2],
                            TagPaginationKey(req.key, req.tags[i]), Some(OrDefault(req.count)))],
     early |-> AnyFirstPageEmpty(first)]

\* listIds up to its `while` loop, or to its early return.
InvFirst(tbl, lek, req) ==
    InvFirstState(req,
        [i \in 1..Len(req.tags) |->
            listIdsFromDbUsingTags(tbl, lek, req.tags[i][1], req.tags[i][2],
                                   TagPaginationKey(req.key, req.tags[i]),
                                   Some(OrDefault(req.count)))])

\* The `while` loop of listIds goes on.
InvLooping(st) == ~st.early /\ st.keep /\ Len(st.matched) < st.count

\* What process returns once listIds is over with the locals st: the records of
\* the matched ids as the store lists them, and the token of listIds.
InvResult(tbl, rev, st) ==
    IF st.early \/ Len(st.matched) = 0 THEN [items |-> None, token |-> None]
    ELSE [items |-> Some(assembleItems(
                      MapGet(StoreGet(tbl, rev, <<[table |-> TableName,
                                                   items |-> GetKeys(st.matched)]>>),
                             TableName))),
          token |-> NextToken(st.matched, st.count)]

\* Faulty variant of LocalsOf: the locals are kept on the service instance, where
\* every invocation finds those of the first.
LocalsOf_Shared(invs, i) == invs[1].st

\* The locals the i-th invocation works on: its own.
LocalsOf(invs, i) == invs[i].st

IdleInvocation ==
    [pc |-> "idle", request |-> [tags |-> <<>>, key |-> None, count |-> None],
     st |-> [tags |-> <<>>, count |-> MAX_LIST_RESULTS, res |-> <<>>, ids |-> <<>>,
             ptr |-> <<>>, matched |-> <<>>, keep |-> TRUE, q |-> <<>>, early |-> FALSE],
     result |-> None]

InterleaveInit ==
    /\ table \in ListTables
    /\ lekAtLimit \in BOOLEAN
    /\ getReversed = FALSE
    /\ pc = "idle"
    /\ tags = <<>>
    /\ paginationKey = None
    /\ count = None
    /\ resultsForTags = <<>>
    /\ idsForTags = <<>>
    /\ listPointers = <<>>
    /\ matchedItemIds = <<>>
    /\ keepGoing = TRUE
    /\ listIdsResult = None
    /\ queries = <<>>
    /\ pages = None
    /\ stack = <<>>
    /\ calls = <<>>
    /\ item = None
    /\ outcome = None
    /\ batchRet = None
    /\ created = {}
    /\ batchRequest = None
    /\ inFlight = <<>>
    /\ pending = {}
    /\ invocations = [i \in 1..MaxInvocations |-> IdleInvocation]

\* The i-th invocation starts: process calls listIds, which runs to its loop.
InvCall(i) ==
    /\ invocations[i].pc = "idle"
    /\ \E tg \in ListTagChoices, key \in KeyChoices, cnt \in CountChoices :
          /\ TableTagNames(table) \subseteq {tg[j][1] : j \in 1..Len(tg)}
          /\ invocations' =
                [invocations EXCEPT
                    ![i] = [pc |-> "merge",
                            request |-> [tags |-> tg, key |-> key, count |-> cnt],
                            st |-> InvFirst(table, lekAtLimit,
                                            [tags |-> tg, key |-> key, count |-> cnt]),
                            result |-> None]]
    /\ UNCHANGED <<listVars, getReversed, batchVars>>

\* One pass of the `while` loop of the i-th invocation.
InvMergePass(i) ==
    /\ invocations[i].pc = "merge"
    /\ InvLooping(LocalsOf(invocations, i))
    /\ invocations' = [invocations EXCEPT
                          ![i].st = ForLoop(table, lekAtLimit, LocalsOf(invocations, i), 1)]
    /\ UNCHANGED <<listVars, getReversed, batchVars>>

\* listIds of the i-th invocation is over: process fetches the records and returns.
InvReturn(i) ==
    /\ invocations[i].pc = "merge"
    /\ ~InvLooping(LocalsOf(invocations, i))
    /\ invocations' = [invocations EXCEPT
                          ![i].pc = "done",
                          ![i].result = Some(InvResult(table, getReversed,
                                                       LocalsOf(invocations, i)))]
    /\ UNCHANGED <<listVars, getReversed, batchVars>>

InterleaveNext ==
    \E i \in 1..MaxInvocations : InvCall(i) \/ InvMergePass(i) \/ InvReturn(i)

SpecInterleave == InterleaveInit /\ [][InterleaveNext]_vars

\* -------------------------------------------------------- the process model
\* ListService.process and CreateService.process on the tables of the list
\* model; the store services fully every batch it does not reject.
\* The tags of the requests of the process model: absent, the empty map, or
\* the tag maps of the list model.
ProcessTagChoices == {None, Some(<<>>)} \cup {Some(tg) : tg \in ListTagChoices}

\* A caller lists the tasks carrying all of the tags tg: process filters by the
\* tags if there are any, and lists the task items otherwise.
ProcessCall ==
    \E tg \in ProcessTagChoices, key \in KeyChoices, cnt \in CountChoices :
        IF FilterByTags(tg)
        THEN /\ TableTagNames(table) \subseteq {Get(tg)[i][1] : i \in 1..Len(Get(tg))}
             /\ ListIdsIssue(Get(tg), key, cnt)
        ELSE ListItemsIssue(tg, key, cnt)

\* The store answers one of the pending first-page queries, in any order.
ProcessResponse == \E i \in pending : FirstPageResponse(i)

\* The names of the items of the create requests: a name, the empty string, none.
CreateNames == {"n", "", NoAttr}

\* The create handler calls CreateService.process with an item that has none or
\* one of the tags of the list model.
ProcessCreate ==
    \E tg \in {<<>>} \cup {t \in ListTagChoices : Len(t) = 1}, nm \in CreateNames :
        \/ CreateProcess([TaskOf(Undefined, tg) EXCEPT !.name = nm], <<"new">>)
        \/ CreateInvalid([TaskOf(Undefined, tg) EXCEPT !.name = nm])

\* The store rejects a call: a first-page query, a query of the merge loop, or
\* a batch call.
ProcessReject ==
    \/ \E i \in pending : FirstPageReject(i)
    \/ \E k \in 1..MaxTags : RefillReject(k)
    \/ BatchReject
    \/ ListItemsReject

\* The response body the list handler assembles from the request's
\* paginationKey and count and from the results of process.
ListResponse(key, cnt, results) ==
    [statusCode |-> 200,
     items |-> results.items,
     pagination |->
        IF (IsSome(key) /\ Truthy(Get(key).id)) \/ (IsSome(cnt) /\ Get(cnt) # 0)
        THEN Some([nextToken |-> IF IsSome(key) /\ Truthy(Get(key).id)
                                 THEN Some(Get(key).id) ELSE None,
                   count |-> IF IsSome(cnt) /\ Get(cnt) # 0 THEN cnt ELSE None])
        ELSE None]

\* The list handler answers once process has returned.
ListHandlerReturn ==
    /\ pc = "listed"
    /\ ~IsSome(item)
    /\ pc' = "responded"
    /\ outcome' = Some([kind |-> "response",
                        of |-> Get(outcome),
                        response |-> ListResponse(paginationKey, count, Get(outcome))])
    /\ UNCHANGED <<table, lekAtLimit, getReversed, tags, paginationKey, count,
                   resultsForTags, idsForTags, listPointers, matchedItemIds, keepGoing,
                   listIdsResult, queries, pages, pending, stack, calls, item, batchRet,
                   created, batchRequest, inFlight, invocations>>

\* The list handler: a request is answered by process and by the handler.
HandlerNext ==
    \/ ProcessCall \/ ProcessResponse \/ MergePass \/ ListIdsReturn \/ ListExpand
    \/ BatchIssue \/ E2EStore \/ BatchReturn \/ ListItemsReturn \/ ListHandlerReturn

SpecHandler == ListInit /\ [][HandlerNext]_vars

ProcessNext ==
    \/ ProcessCall \/ ProcessResponse \/ MergePass \/ ListIdsReturn \/ ListExpand
    \/ ProcessCreate \/ BatchIssue \/ E2EStore \/ BatchReturn \/ ProcessReject
    \/ CreateHandlerReturn \/ ListItemsReturn

SpecProcess == ListInit /\ [][ProcessNext]_vars

\* ------------------------------------------------- properties of listIds
\* The posting list of a tag: the ids of the tasks the table holds a posting for.
PostingIds(tbl, tg) ==
    {id \in Ids : \E it \in tbl : it.pk = <<"tag">> \o tg[1]
                                   /\ it.sk = tg[2] \o <<"task">> \o id}

\* The ids present in the posting list of every tag of tg.
Intersection(tbl, tg) == {id \in Ids : \A i \in 1..Len(tg) : id \in PostingIds(tbl, tg[i])}

\* The ids of S in ascending order.
RECURSIVE Ascending(_)
Ascending(S) ==
    IF S = {} THEN <<>>
    ELSE LET m == CHOOSE x \in S : \A y \in S : y = x \/ StrLess(x, y)
         IN <<m>> \o Ascending(S \ {m})

IsPrefix(s, t) == Len(s) <= Len(t) /\ SubSeq(t, 1, Len(s)) = s

Returned == pc = "returned"

\* C1: listIds called with no continuation and a limit larger than the size of
\* the intersection returns exactly the ascending sequence of the ids present in
\* the posting lists of all its tags, and no continuation token.
C1_FullIntersection ==
    (Returned /\ ~IsSome(paginationKey)
        /\ OrDefault(count) > Cardinality(Intersection(table, tags)))
    => /\ ResultIds(Result) = Ascending(Intersection(table, tags))
       /\ ~IsSome(Result.token)

\* C1 witness: such a call has returned a non-empty intersection after fetching
\* a second page of some tag.
C1_Witness ==
    /\ Returned /\ ~IsSome(paginationKey)
    /\ OrDefault(count) > Cardinality(Intersection(table, tags))
    /\ Len(tags) = 2
    /\ Len(queries) > Len(tags)
    /\ Len(ResultIds(Result)) >= 1

\* C2: in a chain of calls with the same limit, started with no continuation and
\* continued with each returned token, the concatenation of the pages returned
\* so far is an initial part of the ascending intersection, and it is the whole
\* intersection once a call returns no token.
C2_PaginationComplete ==
    (Returned /\ IsSome(pages))
    => /\ IsPrefix(Get(pages), Ascending(Intersection(table, tags)))
       /\ (~IsSome(Result.token) => Get(pages) = Ascending(Intersection(table, tags)))

\* C2 witness: a chain of at least two calls has ended, with all ids returned.
C2_Witness ==
    /\ Returned /\ IsSome(pages) /\ IsSome(paginationKey)
    /\ ~IsSome(Result.token)
    /\ Len(tags) = 2
    /\ Len(Get(pages)) >= 2
    /\ Len(ResultIds(Result)) >= 1

\* C9: listIds returns a continuation token if and only if the number of matched
\* ids equals the limit, and then the token's id is the last matched id; a loop
\* ended by an exhausted cursor with fewer matches returns no token.
C9_TokenIffFull ==
    Returned =>
       /\ IsSome(Result.token) <=> Len(ResultIds(Result)) = OrDefault(count)
       /\ IsSome(Result.token) =>
             Get(Result.token).id = ResultIds(Result)[Len(ResultIds(Result))]
       /\ (IsSome(Result.ids) /\ ~keepGoing /\ Len(matchedItemIds) < OrDefault(count))
             => ~IsSome(Result.token)

\* C9 witness: a call has returned a full page of two ids with its token.
C9_Witness ==
    /\ Returned /\ IsSome(Result.token)
    /\ Len(ResultIds(Result)) = 2

\* C10: with a continuation id c, the first-page query of every tag starts
\* exclusively after (tag#name, value#task#c), and the call returns the first
\* `limit` members of the intersection that are greater than c, in order.
C10_ResumeAfterKey ==
    (Returned /\ IsSome(paginationKey))
    => LET c == Get(paginationKey).id
       IN /\ \A i \in 1..Len(tags) :
                queries[i].ExclusiveStartKey =
                    Some([pk |-> <<"tag">> \o tags[i][1],
                          sk |-> tags[i][2] \o <<"task">> \o c])
          /\ \A i \in 1..Len(ResultIds(Result)) : StrLess(c, ResultIds(Result)[i])
          /\ ResultIds(Result) =
                Take(Ascending({id \in Intersection(table, tags) : StrLess(c, id)}),
                     OrDefault(count))

\* C10 witness: a call with a continuation id that is itself in the intersection
\* has returned the members after it.
C10_Witness ==
    /\ Returned /\ IsSome(paginationKey)
    /\ Get(paginationKey).id \in Intersection(table, tags)
    /\ Len(tags) = 2
    /\ Len(ResultIds(Result)) >= 1

\* ------------------------- properties of batchGetAll and batchWriteAll
\* The items (keys, write requests) of a RequestItems / UnprocessedItems object.
ItemsOf(m) == UNION {{m[i].items[j] : j \in 1..Len(m[i].items)} : i \in 1..Len(m)}

\* The operation is a write (CreateService) or a read (ListService).
IsWrite == IsSome(item)

\* The items of the request of the current operation's outermost batch call.
RequestOf ==
    IF IsWrite THEN {SaveRequests(Get(item))[i] : i \in 1..Len(SaveRequests(Get(item)))}
    ELSE {GetKeys(ResultIds(Result))[i] : i \in 1..Len(ResultIds(Result))}

\* The last store call that carried k did not report it as unprocessed.
Accepted(k) ==
    \E i \in 1..Len(calls) :
        /\ k \in ItemsOf(calls[i].request)
        /\ k \notin ItemsOf(calls[i].unprocessed)
        /\ \A j \in (i + 1)..Len(calls) : k \notin ItemsOf(calls[j].request)

\* The residue the outermost batch call returned: the UnprocessedItems of a
\* write output, the UnprocessedKeys of a read output.
Residue ==
    IF IsSome(batchRet) /\ Get(batchRet).kind # "undefined"
       /\ IsSome(PropOf(Get(batchRet), IF IsWrite THEN "UnprocessedItems" ELSE "UnprocessedKeys"))
    THEN ItemsOf(Get(PropOf(Get(batchRet),
                            IF IsWrite THEN "UnprocessedItems" ELSE "UnprocessedKeys")))
    ELSE {}

\* The request went to the store as one chunk, and each of the first n store
\* calls reported the same two items as unprocessed.
SameTwoReported(n) ==
    /\ Len(calls) >= n
    /\ ItemsOf(calls[1].request) = RequestOf
    /\ Cardinality(ItemsOf(calls[1].unprocessed)) = 2
    /\ \A i \in 1..n : ItemsOf(calls[i].unprocessed) = ItemsOf(calls[1].unprocessed)

\* C4: whenever batchGetAll or batchWriteAll returns, every item of the request
\* was accepted by the store (not reported unprocessed by the last call that
\* carried it) or is contained in the residue returned to the caller.
C4_NeverDropped ==
    IsSome(batchRet) => \A k \in RequestOf : Accepted(k) \/ k \in Residue

\* C5: with a single-chunk request and a store that reports the same 2 items as
\* unprocessed on each of 4 consecutive calls, exactly 1 + MAX_RETRIES store calls
\* are issued and those 2 items are then returned as the residue.
C5_ResidueAfterMaxRetries ==
    SameTwoReported(1 + MAX_RETRIES)
        => /\ Len(calls) = 1 + MAX_RETRIES
           /\ IsSome(batchRet)
           /\ Residue = ItemsOf(calls[1].unprocessed)

\* C6: CreateService.process returns the saved item only if every write item was
\* accepted by the store, and when the retries of a write end with items still
\* unprocessed it has raised the Error SAVE_FAILED.
C6_SavedOrSaveFailed ==
    IsWrite =>
        /\ pc = "created" => \A k \in RequestOf : Accepted(k)
        /\ (/\ Len(calls) >= 1 + MAX_RETRIES
            /\ \A i \in 1..(1 + MAX_RETRIES) : calls[i].depth = i /\ calls[i].unprocessed # <<>>)
               => outcome = Some([kind |-> "error", name |-> "SAVE_FAILED"])

\* The records the store calls of the operation returned.
RecordsReturned == UNION {ItemsOf(calls[i].responses) : i \in 1..Len(calls)}

\* C7: when keys are still unprocessed after the retries of a read, batchGetAll
\* has returned without raising, and ListService.process has returned every
\* record a store call returned together with the continuation token.
C7_PartialRead ==
    (/\ ~IsWrite
     /\ Len(calls) >= 1 + MAX_RETRIES
     /\ \A i \in 1..(1 + MAX_RETRIES) : calls[i].depth = i /\ calls[i].unprocessed # <<>>)
        => /\ pc = "listed"
           /\ IsSome(outcome) /\ Get(outcome).kind = "list"
           /\ IsSome(Get(outcome).items)
           /\ {Get(Get(outcome).items)[i] : i \in 1..Len(Get(Get(outcome).items))}
                 = {assembleItems(<<r>>)[1] : r \in RecordsReturned}
           /\ Get(outcome).token = Result.token

\* C8: batchGetAll and batchWriteAll recurse no deeper than the retry limit
\* allows: the initial call and MAX_RETRIES nested retries.
C8_BoundedDepth == Len(stack) <= 1 + MAX_RETRIES

\* ------------------------------------------- properties of create and list
\* The created records whose tag map contains every requested (name, value).
Matching ==
    {r \in created : \A i \in 1..Len(tags) : \E j \in 1..Len(r.tags) : r.tags[j] = tags[i]}

\* The records ListService.process returned.
Listed ==
    IF IsSome(Get(outcome).items) THEN Get(Get(outcome).items) ELSE <<>>

\* C3: after any sequence of successful CreateService.process calls, with the
\* store servicing every batch fully, ListService.process(tags) with no
\* pagination key and a limit larger than the number of matches returns exactly
\* the created records whose tag map contains every requested pair, once each.
C3_EndToEnd ==
    (pc = "listed" /\ OrDefault(count) > Cardinality(Matching))
        => /\ {Listed[i] : i \in 1..Len(Listed)} = Matching
           /\ Len(Listed) = Cardinality(Matching)

C3_Witness ==
    /\ pc = "listed"
    /\ OrDefault(count) > Cardinality(Matching)
    /\ Len(tags) = 2
    /\ Cardinality(Matching) = 2
    /\ Cardinality(created) = 3
    /\ Len(Listed) = 2

\* ---------------------------------------- properties of ListService.process
\* The ids of the posting list of tag tg that a call with pagination key key
\* can see: all of them, or those after the key's id.
PostingIdsAfter(tbl, tg, key) ==
    {id \in PostingIds(tbl, tg) : IsSome(key) => StrLess(Get(key).id, id)}

\* The first page of some tag of the running call is empty.
SomeFirstPageEmpty ==
    \E i \in 1..Len(tags) : PostingIdsAfter(table, tags[i], paginationKey) = {}

\* C11: if the first page of any tag is empty, listIds returns no identifiers
\* and no continuation token after exactly the n first-page queries, whatever the
\* other tags' lists hold: no refill query and no batchGet is issued.
C11_ShortCircuit ==
    (pc \notin {"idle", "firstPages", "failed"} /\ SomeFirstPageEmpty)
        => /\ pc \in {"returned", "listed"}
           /\ ResultIds(Result) = <<>>
           /\ ~IsSome(Result.token)
           /\ Len(queries) = Len(tags)
           /\ stack = <<>> /\ calls = <<>>
           /\ pc = "listed" =>
                 outcome = Some([kind |-> "list", items |-> None, token |-> None])

C11_Witness ==
    /\ pc = "listed"
    /\ SomeFirstPageEmpty
    /\ Len(tags) = 2
    /\ \E i \in 1..Len(tags) : Cardinality(PostingIdsAfter(table, tags[i], paginationKey)) >= 2

\* C12: with exactly one tag, listIds(tags, c, k) is plain forward pagination of
\* that tag's posting list: it returns the first k identifiers after c in list
\* order (all remaining if fewer than k), with a token equal to the last one
\* exactly when k identifiers were returned.
C12_SingleTagPagination ==
    (Returned /\ Len(tags) = 1)
        => /\ ResultIds(Result) =
                 Take(Ascending(PostingIdsAfter(table, tags[1], paginationKey)),
                      OrDefault(count))
           /\ IsSome(Result.token) <=> Len(ResultIds(Result)) = OrDefault(count)
           /\ IsSome(Result.token) =>
                 Get(Result.token) = [id |-> ResultIds(Result)[Len(ResultIds(Result))]]

C12_Witness ==
    /\ Returned
    /\ Len(tags) = 1
    /\ IsSome(paginationKey)
    /\ Len(ResultIds(Result)) = 2
    /\ IsSome(Result.token)

\* The ids of sq are strictly ascending.
StrictlyAscending(sq) == \A i \in 1..(Len(sq) - 1) : StrLess(sq[i], sq[i + 1])

\* C13: in every state of the merge loop and in the final result, the matched
\* ids are strictly ascending (hence free of duplicates) and no more than the
\* limit.
C13_MatchedAscendingBounded ==
    /\ pc \in {"merge", "returned"}
          => /\ StrictlyAscending(matchedItemIds)
             /\ Len(matchedItemIds) <= OrDefault(count)
    /\ Returned
          => /\ StrictlyAscending(ResultIds(Result))
             /\ Len(ResultIds(Result)) <= OrDefault(count)

C13_Witness ==
    /\ pc = "merge"
    /\ Len(tags) = 2
    /\ Len(matchedItemIds) = 2
    /\ Len(matchedItemIds) < OrDefault(count)
    /\ keepGoing

\* ------------------------------------------- properties of the chunk split
\* The ceiling of the store for the outermost batch call.
Ceiling == IF Get(batchRequest).isGet THEN DEFAULT_MAX_GET_BATCH_SIZE
           ELSE DEFAULT_MAX_WRITE_BATCH_SIZE

\* The chunks the outermost batch call made of its request, in order: those whose
\* store call has returned, the one whose call is awaited, those still to process.
ChunksMade ==
    [i \in 1..Len(calls) |-> calls[i].request]
        \o [i \in 1..Len(inFlight) |-> inFlight[i].chunk]
        \o (IF stack # <<>> THEN stack[1].chunks ELSE <<>>)

ChunkSizes == [i \in 1..Len(ChunksMade) |-> ItemCount(ChunksMade[i])]

\* A direct batch call is running or has returned.
Splitting == IsSome(batchRequest) /\ pc \in {"getAll", "writeAll", "done"}

RECURSIVE EntriesFor(_, _)
EntriesFor(chunks, t) ==
    IF chunks = <<>> THEN <<>>
    ELSE (IF MapHas(Head(chunks), t) THEN MapGet(Head(chunks), t) ELSE <<>>)
            \o EntriesFor(Tail(chunks), t)

TablesOf(m) == {m[i].table : i \in 1..Len(m)}

\* C15: the chunks, concatenated in order, hold for every table of the request
\* exactly the entries of the request in their order, and hold no other table.
C15_ChunkingPreserves ==
    Splitting =>
        /\ \A i \in 1..Len(Get(batchRequest).RequestItems) :
              EntriesFor(ChunksMade, Get(batchRequest).RequestItems[i].table)
                = Get(batchRequest).RequestItems[i].items
        /\ \A i \in 1..Len(ChunksMade) :
              TablesOf(ChunksMade[i]) \subseteq TablesOf(Get(batchRequest).RequestItems)

\* A write request over two tables was split into three chunks, the second of
\* which holds entries of both tables.
C15_Witness ==
    /\ pc = "done"
    /\ ~Get(batchRequest).isGet
    /\ Len(Get(batchRequest).RequestItems) = 2
    /\ Len(calls) = 3
    /\ Len(calls[2].request) = 2
    /\ \A i \in 1..2 : Len(calls[2].request[i].items) > 0
\* ------------------------------------- properties of the order of store calls
\* C16: store calls are made one at a time.  At most one dc.batchGet /
\* dc.batchWrite call is outstanding, and it is a call of the innermost batch
\* call: while a retry of the residue of chunk k runs, the call that made chunk k
\* has no call outstanding, so the call for its chunk k+1 has not been issued.
C16_OneStoreCallAtATime ==
    /\ Len(inFlight) <= 1
    /\ \A i \in 1..Len(inFlight) : inFlight[i].depth = Len(stack)

\* A retry of the residue of a chunk awaits its store call while the call that
\* made the chunk has further chunks to process.
C16_Witness ==
    /\ Len(stack) = 2
    /\ Len(inFlight) = 1
    /\ stack[1].chunks # <<>>
    /\ calls # <<>>
    /\ calls[Len(calls)].unprocessed # <<>>
\* --------------------------------- properties of the first pages of listIds
\* The first-page query listIds makes for the tag at index i.
FirstPageQuery(i) ==
    TagQueryInput(tags[i][1], tags[i][2], TagPaginationKey(paginationKey, tags[i]),
                  Some(OrDefault(count)))

\* C17: listIds issues one first-page query per tag, in the order of the tags,
\* before any of them returns; while a first page is pending the merge loop has
\* not started, so no further query and no batchGet was issued; and the result
\* slot of a tag holds that tag's page whatever the order of arrival.
C17_FirstPagesInParallel ==
    /\ pc = "firstPages" =>
          /\ pending # {}
          /\ pending \subseteq 1..Len(tags)
          /\ \A i \in (1..Len(tags)) \ pending :
                resultsForTags[i] = TagQueryResponse(Query(table, lekAtLimit, FirstPageQuery(i)))
    /\ pc # "idle" =>
          /\ Len(queries) >= Len(tags)
          /\ \A i \in 1..Len(tags) : queries[i] = FirstPageQuery(i)
    /\ pending # {} =>
          /\ pc \in {"firstPages", "failed"}
          /\ Len(queries) = Len(tags)
          /\ matchedItemIds = <<>>
          /\ stack = <<>> /\ inFlight = <<>> /\ calls = <<>>

\* The second tag's first page has arrived while the first tag's is pending.
C17_Witness ==
    /\ pc = "firstPages"
    /\ Len(tags) = 2
    /\ pending = {1}
    /\ IsSome(resultsForTags[2].ids)
    /\ Len(queries) = 2
\* ------------------------------------------- properties of rejected store calls
\* The operation ended with the error of a rejected store call.
Rejected == IsSome(outcome) /\ Get(outcome).kind = "error" /\ Get(outcome).name = "StoreError"

\* The number of store calls the operation has issued.
Issued == Len(queries) + Len(calls) + Len(inFlight)

\* C18: a rejected store call is fatal and is not retried.  When a query (of a
\* first page or of the merge loop) rejects, the operation has failed with that
\* error, the query was issued once and was the last call issued, and no batchGet
\* was issued; when a batchGet or batchWrite call rejects, the operation has
\* failed with that error and no store call was issued after the rejected one.
C18_RejectionIsFatal ==
    Rejected =>
        /\ pc = "failed"
        /\ stack = <<>> /\ inFlight = <<>>
        /\ Get(outcome).op = "query" =>
              /\ calls = <<>> /\ batchRequest = None
              /\ Len(queries) = Get(outcome).issued
              /\ Cardinality({i \in 1..Len(queries) : queries[i] = Get(outcome).request}) = 1
        /\ Get(outcome).op # "query" =>
              /\ Issued + 1 = Get(outcome).issued
              /\ \A i \in 1..Len(calls) : calls[i].request # Get(outcome).request

\* A query of the merge loop rejected after both first pages had returned.
C18_Witness ==
    /\ Rejected
    /\ Get(outcome).op = "query"
    /\ Len(tags) = 2
    /\ pending = {}
    /\ Len(queries) > Len(tags)
\* ------------------------------------- properties of the create validation
\* The item handed to CreateService.process has no name or an empty one.
NameMissing == IsSome(item) /\ Get(item).name \in {"", NoAttr}

\* The error process ended with (also once the handler has answered it).
ErrorOf ==
    IF ~IsSome(outcome) THEN None
    ELSE IF Get(outcome).kind = "error" THEN outcome
    ELSE IF Get(outcome).kind = "response" /\ Get(outcome).of.kind = "error"
    THEN Some(Get(outcome).of)
    ELSE None

\* C19: process with a missing or empty name raises an ArgumentError, and only
\* then; the item has no id and no batchWrite call was issued; the create handler
\* answers an ArgumentError with status 400 and every other error with 500.
C19_ValidationError ==
    /\ NameMissing <=> (IsSome(ErrorOf) /\ Get(ErrorOf).name = "ArgumentError")
    /\ NameMissing =>
          /\ pc \in {"failed", "responded"}
          /\ Get(item).id = Undefined
          /\ stack = <<>> /\ inFlight = <<>> /\ calls = <<>> /\ batchRequest = None
    /\ (pc = "responded" /\ IsSome(ErrorOf)) =>
          Get(outcome).response.statusCode =
              IF Get(ErrorOf).name = "ArgumentError" THEN 400 ELSE 500

\* The create handler answered an item with an empty name with status 400.
C19_Witness ==
    /\ pc = "responded"
    /\ IsSome(item) /\ Get(item).name = ""
    /\ Get(outcome).response.statusCode = 400
\* ------------------------------------- properties of the two paths of process
\* process is listing with a tag filter / without one.
ListingByTags == pc # "idle" /\ ~IsSome(item) /\ Len(tags) > 0
ListingAll == pc # "idle" /\ ~IsSome(item) /\ Len(tags) = 0

\* A batchGetAll call has been made.
BatchGetMade == IsSome(batchRequest) \/ stack # <<>> \/ inFlight # <<>> \/ calls # <<>>

\* C20: with tags, process makes no query on the index siKey1-sk-index, makes
\* its batchGetAll call only once listIds has returned, and exactly when listIds
\* returned an id, and returns the token listIds returned; without tags (absent or
\* empty) it makes the one index query and no tag query or batchGetAll call.
C20_ProcessPaths ==
    /\ ListingByTags =>
          /\ \A i \in 1..Len(queries) : "IndexName" \notin DOMAIN queries[i]
          /\ BatchGetMade =>
                /\ IsSome(listIdsResult)
                /\ Len(ResultIds(Result)) > 0
                /\ Get(batchRequest).isGet
                /\ ItemsOf(Get(batchRequest).RequestItems)
                      = {GetKeys(ResultIds(Result))[i] : i \in 1..Len(ResultIds(Result))}
          /\ pc = "listed" =>
                /\ Get(outcome).token = Result.token
                /\ Len(ResultIds(Result)) > 0 <=> calls # <<>>
    /\ ListingAll =>
          /\ Len(queries) = 1
          /\ queries[1] = IndexQueryInput(paginationKey, count)
          /\ ~BatchGetMade
          /\ listIdsResult = None

\* process with two tags returned the items of two ids and the token of listIds.
C20_Witness ==
    /\ pc = "listed"
    /\ Len(tags) = 2
    /\ Len(calls) = 1
    /\ Len(ResultIds(Result)) = 2
    /\ IsSome(Get(outcome).token)
    /\ IsSome(Get(outcome).items) /\ Len(Get(Get(outcome).items)) = 2

\* ---------------------------------------- properties of the record expansion
\* The ids of the records ListService.process returned, in their order.
ListedIds == [i \in 1..Len(Listed) |-> Listed[i].id]

\* C21: the records ListService.process(tags) returns are in the order of the
\* matched ids (ascending), whatever order the store's batchGet lists them in.
C21_OrderedByMatch ==
    (pc = "listed" /\ Len(tags) > 0 /\ IsSome(Get(outcome).items))
        => ListedIds = ResultIds(Result)

\* The items the store calls returned for table t, in the order of the calls.
RECURSIVE ResponsesFor(_, _)
ResponsesFor(cs, t) ==
    IF cs = <<>> THEN <<>>
    ELSE (IF MapHas(Head(cs).responses, t) THEN MapGet(Head(cs).responses, t) ELSE <<>>)
            \o ResponsesFor(Tail(cs), t)

\* The records of the items its, in their order.
RecordsOf(its) ==
    [i \in 1..Len(its) |->
        [id |-> Split(its[i].pk, 1), name |-> its[i].name,
         description |-> its[i].description, tags |-> its[i].tags]]

\* ListService.process is in or after its getItemsFromDb call.
Expanding == ~IsSome(item) /\ IsSome(batchRequest) /\ Get(batchRequest).isGet
                /\ pc \in {"batchGet", "listed"}

\* C22: getItemsFromDb asks, in one batchGetAll request, for the key
\* {pk: task#id, sk: task#id} of each matched id, in matched order and none
\* twice, and process returns exactly the records of the items the store calls
\* returned.
C22_ExpansionRequest ==
    Expanding =>
        /\ Len(Get(batchRequest).RequestItems) = 1
        /\ Get(batchRequest).RequestItems[1].table = TableName
        /\ Get(batchRequest).RequestItems[1].items
              = [i \in 1..Len(ResultIds(Result)) |->
                    [pk |-> <<"task">> \o ResultIds(Result)[i],
                     sk |-> <<"task">> \o ResultIds(Result)[i]]]
        /\ Cardinality({ResultIds(Result)[i] : i \in 1..Len(ResultIds(Result))})
              = Len(ResultIds(Result))
        /\ pc = "listed" =>
              /\ IsSome(Get(outcome).items)
              /\ Listed = RecordsOf(ResponsesFor(calls, TableName))

\* process returned fewer records than it asked for, after several store calls.
C22_Witness ==
    /\ Expanding
    /\ pc = "listed"
    /\ Len(calls) >= 2
    /\ Len(Listed) > 0
    /\ Len(Listed) < Len(ResultIds(Result))

\* ------------------------------------------- properties of the create request
\* CreateService.process is in or after its saveToDb call.
Saving == IsSome(item) /\ IsSome(batchRequest) /\ ~Get(batchRequest).isGet

\* The put-items of the request of saveToDb.
Puts == Get(batchRequest).RequestItems[1].items

TaskIdsAfter ==
    Ascending({id \in Ids :
                 /\ \E it \in table : it.pk = <<"task">> \o id /\ it.siKey1 = "task"
                 /\ IsSome(paginationKey) => StrLess(Get(paginationKey).id, id)})

\* C24: without tags process makes one query on siKey1-sk-index with Limit =
\* count (20 when none is given) and, when a pagination id p is given, the
\* exclusive start key (task#p, task#p, siKey1 = task); it returns the records of
\* that page in the store's order, with the id of the store's LastEvaluatedKey
\* as token, and no token when the store returns no LastEvaluatedKey.
C24_UntaggedList ==
    ListingAll =>
        /\ Len(queries) = 1
        /\ queries[1].IndexName = "siKey1-sk-index"
        /\ queries[1].hash = "task"
        /\ queries[1].Limit = (IF IsSome(count) THEN Get(count) ELSE 20)
        /\ queries[1].ExclusiveStartKey =
              (IF IsSome(paginationKey)
               THEN Some([pk |-> <<"task">> \o Get(paginationKey).id,
                          sk |-> <<"task">> \o Get(paginationKey).id, siKey1 |-> "task"])
               ELSE None)
        /\ pc = "listed" =>
              /\ ListedIds = Take(TaskIdsAfter, queries[1].Limit)
              /\ Listed = RecordsOf(IndexQuery(table, lekAtLimit, queries[1]).Items)
              /\ Get(outcome).token =
                    (IF IsSome(IndexQuery(table, lekAtLimit, queries[1]).LastEvaluatedKey)
                     THEN Some([id |-> Split(Get(IndexQuery(table, lekAtLimit,
                                                            queries[1]).LastEvaluatedKey).pk, 1)])
                     ELSE None)
              /\ IsSome(Get(outcome).token) =>
                    Get(Get(outcome).token).id = ListedIds[Len(ListedIds)]

\* A page of two records after a pagination id was returned with a token.
C24_Witness ==
    /\ ListingAll
    /\ pc = "listed"
    /\ IsSome(paginationKey)
    /\ count = Some(2)
    /\ Len(Listed) = 2
    /\ IsSome(Get(outcome).token)

\* ----------------------------------------------- properties of statelessness
\* The locals of listIds when its loop is over, run without interruption.
RECURSIVE RunLoop(_, _, _)
RunLoop(tbl, lek, st) ==
    IF InvLooping(st) THEN RunLoop(tbl, lek, ForLoop(tbl, lek, st, 1)) ELSE st

\* What process returns for the request req when it runs alone.
ProcessAlone(tbl, lek, rev, req) == InvResult(tbl, rev, RunLoop(tbl, lek, InvFirst(tbl, lek, req)))

C26_RetryCarriesUnprocessed ==
    /\ \A k \in 1..Len(calls) :
          calls[k].depth > 1 =>
             /\ k > 1
             /\ calls[k - 1].depth = calls[k].depth - 1
             /\ calls[k - 1].unprocessed # <<>>
             /\ calls[k].request = calls[k - 1].unprocessed
    /\ (pc = "listed" /\ IsSome(batchRet)) =>
          /\ Get(batchRet).kind = "Responses"
          /\ \A e \in 1..Len(Get(batchRet).map) : Get(batchRet).map[e].table = TableName
          /\ (IF MapHas(Get(batchRet).map, TableName)
              THEN MapGet(Get(batchRet).map, TableName) ELSE <<>>)
                = ResponsesFor(calls, TableName)

\* batchGetAll has returned after a retry of a retry, with items from store
\* calls of several frames.
C26_Witness ==
    /\ pc = "listed"
    /\ IsSome(batchRet)
    /\ \E k \in 1..Len(calls) : calls[k].depth = 3 /\ calls[k].responses # <<>>
    /\ \E k \in 1..Len(calls) : calls[k].depth = 1 /\ calls[k].responses # <<>>
    /\ Len(ResponsesFor(calls, TableName)) > 2

\* ------------------------------------------ properties of the merge loop
\* A step is one pass of the `while` loop of listIds.
Pass == pc = "merge" /\ pc' = "merge"

\* The pass loaded a new page for tag j.
Refilled(j) == idsForTags'[j] # idsForTags[j]

\* The pointer of tag j in the pass before any advance: reset by a new page.
Base(j) == IF Refilled(j) THEN 0 ELSE listPointers[j]

\* The id tag j's pointer references in the pass before any advance.
Compared(j) == At(idsForTags'[j], Base(j))

\* The tags whose pointer the pass advanced by one.
Advanced == {j \in 1..Len(tags) : listPointers'[j] = Base(j) + 1}

\* The pass neither matched an id nor stopped the loop.
Mismatch == Pass /\ keepGoing' /\ matchedItemIds' = matchedItemIds

\* C27 as stated: on a mismatch exactly one pointer is advanced, and the id it
\* referenced is the smallest of the ids the pointers of all the tags reference.
C27_AdvancesSmallestOfAll ==
    [][Mismatch =>
          /\ Cardinality(Advanced) = 1
          /\ \A i \in Advanced : \A j \in 1..Len(tags) :
                Compared(j) # Undefined => ~StrLess(Compared(j), Compared(i))]_vars

\* C27: on a mismatch exactly one pointer is advanced and the others stay: that
\* of the tag with the smaller id in the first pair of adjacent tags (p, p + 1)
\* whose pointers reference different ids.
C27_AdvancesSmallerOfPair ==
    [][Mismatch =>
          \E p \in 1..(Len(tags) - 1) :
             /\ \A j \in 1..p : Compared(j) = Compared(p)
             /\ Compared(p) # Undefined /\ Compared(p + 1) # Undefined
             /\ Compared(p) # Compared(p + 1)
             /\ Advanced = {IF StrLess(Compared(p), Compared(p + 1)) THEN p ELSE p + 1}
             /\ \A j \in 1..Len(tags) : j \notin Advanced => listPointers'[j] = Base(j)]_vars

\* After the first pass on three tags the pointer of the first tag is advanced
\* while the third tag's pointer references a smaller id.
C27_Witness ==
    /\ pc = "merge"
    /\ Len(tags) = 3
    /\ listPointers = <<1, 0, 0>>
    /\ matchedItemIds = <<>>
    /\ keepGoing
    /\ Len(queries) = 3
    /\ StrLess(At(idsForTags[3], 0), At(idsForTags[1], 0))

\* The pass found the pointers of all the tags at one id, appended it to the
\* matched ids and advanced every pointer by one.
MatchPass ==
    /\ keepGoing'
    /\ Len(matchedItemIds') = Len(matchedItemIds) + 1
    /\ SubSeq(matchedItemIds', 1, Len(matchedItemIds)) = matchedItemIds
    /\ \A j \in 1..Len(tags) :
          /\ Compared(j) = matchedItemIds'[Len(matchedItemIds')]
          /\ listPointers'[j] = Base(j) + 1

\* The pass advanced the pointer of the smaller id of the first pair of adjacent
\* tags that differ, and left the matched ids and the other pointers alone.
MismatchPass ==
    /\ keepGoing'
    /\ matchedItemIds' = matchedItemIds
    /\ \E p \in 1..(Len(tags) - 1) :
          /\ \A j \in 1..p : Compared(j) = Compared(p)
          /\ Compared(p) # Undefined /\ Compared(p + 1) # Undefined
          /\ Compared(p) # Compared(p + 1)
          /\ \A j \in 1..Len(tags) :
                listPointers'[j] =
                    Base(j) + (IF j = (IF StrLess(Compared(p), Compared(p + 1)) THEN p ELSE p + 1)
                               THEN 1 ELSE 0)

\* The pass found a tag with no id left, stopped the loop, matched no id and
\* advanced no pointer.
StopPass ==
    /\ ~keepGoing'
    /\ matchedItemIds' = matchedItemIds
    /\ \A j \in 1..Len(tags) : listPointers'[j] = Base(j)
    /\ \E j \in 1..Len(tags) : Compared(j) = Undefined

\* C28: every pass of the `while` loop of listIds is exactly one of a match, a
\* mismatch and a stop.
C28_PassIsOneOfThree ==
    [][Pass => Cardinality({k \in 1..3 : \/ k = 1 /\ MatchPass
                                         \/ k = 2 /\ MismatchPass
                                         \/ k = 3 /\ StopPass}) = 1]_vars

\* A call on three tags has matched an id, advanced one pointer alone on a
\* mismatch and stopped.
C28_Witness ==
    /\ pc = "merge"
    /\ Len(tags) = 3
    /\ Len(matchedItemIds) = 1
    /\ ~keepGoing
    /\ Len(queries) = 3
    /\ \E i, j \in 1..3 : listPointers[i] = 2 /\ listPointers[j] = 1

\* ------------------------------------------------ properties of the refills
\* The range queries the step issued.
NewQueries == SubSeq(queries', Len(queries) + 1, Len(queries'))

\* The tag a range query is for.
QueryTag(q) == CHOOSE j \in 1..Len(tags) : q.hash = <<"tag">> \o tags[j][1]

\* The pass read the id of tag j: the ids of the tags before it are all equal.
Needed(j) == \A i \in 1..(j - 1) : Compared(i) # Undefined /\ Compared(i) = Compared(1)

\* C29: a pass of the merge loop queries the store for a tag only when the
\* tag's page is used up, the pass reads the tag's id and the tag's last
\* response carried a pagination key; the query starts after that key with the
\* call's count as Limit; the queries of a pass follow the order of the tags;
\* no query is issued between the passes.
C29_RefillOnlyOnNeed ==
    [][/\ pc = "merge" => SubSeq(queries', 1, Len(queries)) = queries
       /\ (pc = "merge" /\ ~Pass) => queries' = queries
       /\ Pass =>
            \A k \in 1..Len(NewQueries) :
               /\ \E j \in 1..Len(tags) : NewQueries[k].hash = <<"tag">> \o tags[j][1]
               /\ At(idsForTags[QueryTag(NewQueries[k])],
                     listPointers[QueryTag(NewQueries[k])]) = Undefined
               /\ IsSome(resultsForTags[QueryTag(NewQueries[k])].key)
               /\ NewQueries[k] =
                    TagQueryInput(tags[QueryTag(NewQueries[k])][1],
                                  tags[QueryTag(NewQueries[k])][2],
                                  resultsForTags[QueryTag(NewQueries[k])].key,
                                  Some(OrDefault(count)))
               /\ IsSome(NewQueries[k].ExclusiveStartKey)
               /\ NewQueries[k].Limit = (IF IsSome(count) THEN Get(count) ELSE MAX_LIST_RESULTS)
               /\ Needed(QueryTag(NewQueries[k]))
               /\ \A h \in 1..(k - 1) : QueryTag(NewQueries[h]) < QueryTag(NewQueries[k])]_vars

\* A call on three tags has loaded a second page for its third tag, after the
\* three first pages.
C29_Witness ==
    /\ pc = "merge"
    /\ Len(tags) = 3
    /\ Len(queries) >= 4
    /\ queries[4].hash = <<"tag">> \o tags[3][1]
    /\ IsSome(queries[4].ExclusiveStartKey)
    /\ listPointers[3] = 0
    /\ keepGoing

\* ---------------------------------------------- properties of the exhaustion
\* The pass issued a range query for tag j.
QueriedFor(j) == \E k \in 1..Len(NewQueries) : NewQueries[k].hash = <<"tag">> \o tags[j][1]

\* The pass reads the id of tag j and finds the tag's page used up.
PageUsedUp(j) == Needed(j) /\ At(idsForTags[j], listPointers[j]) = Undefined

\* C30: a tag whose page is used up and whose last response carried no
\* pagination key is not queried again, and the pass that reads it stops the
\* loop; so does the pass whose query for a tag returns no rows; a pass that
\* stops the loop queries no tag after the one it found without ids; once the
\* loop is stopped, listIds returns without another pass or range query.
C30_ExhaustionIsTerminal ==
    [][/\ Pass =>
            \A j \in 1..Len(tags) :
               /\ (PageUsedUp(j) /\ ~IsSome(resultsForTags[j].key)) =>
                     /\ ~QueriedFor(j)
                     /\ resultsForTags'[j] = resultsForTags[j]
                     /\ ~keepGoing'
               /\ (PageUsedUp(j) /\ IsSome(resultsForTags[j].key)) =>
                     /\ QueriedFor(j)
                     /\ ~IsSome(resultsForTags'[j].ids) => (~keepGoing' /\ ~Refilled(j))
               /\ (~keepGoing' /\ QueriedFor(j)) =>
                     \A i \in 1..(j - 1) : Compared(i) # Undefined
       /\ (pc = "merge" /\ ~keepGoing) =>
             /\ pc' = "returned"
             /\ queries' = queries
             /\ matchedItemIds' = matchedItemIds]_vars

\* A call on three tags has matched an id and stopped on a query that returned
\* no rows.
C30_Witness ==
    /\ pc = "merge"
    /\ Len(tags) = 3
    /\ ~keepGoing
    /\ Len(matchedItemIds) >= 1
    /\ Len(queries) >= 4
    /\ \E j \in 1..3 : ~IsSome(resultsForTags[j].ids)

\* ------------------------------------------------ properties of termination
\* The posting entries of tag j the call can see that its pointer has moved
\* past: those before the id the pointer references, or up to the last id of
\* the page when the page is used up.
Passed(ids, ptr, j) ==
    {id \in PostingIdsAfter(table, tags[j], paginationKey) :
        IF At(ids[j], ptr[j]) # Undefined THEN StrLess(id, At(ids[j], ptr[j]))
        ELSE ~StrLess(ids[j][Len(ids[j])], id)}

RECURSIVE PassedTotal(_, _, _)
PassedTotal(ids, ptr, n) ==
    IF n = 0 THEN 0 ELSE Cardinality(Passed(ids, ptr, n)) + PassedTotal(ids, ptr, n - 1)

\* The number of posting entries the call can see.
RECURSIVE EntriesAfter(_)
EntriesAfter(n) ==
    IF n = 0 THEN 0
    ELSE Cardinality(PostingIdsAfter(table, tags[n], paginationKey)) + EntriesAfter(n - 1)

\* The passes the loop has made: a match moved every pointer past one entry, a
\* mismatch moved one pointer past one entry, and the stop was one more pass.
PassesMade(ids, ptr, matched, keep) ==
    PassedTotal(ids, ptr, Len(tags)) - (Len(tags) - 1) * Len(matched)
        + (IF keep THEN 0 ELSE 1)

\* C31: every pass of the merge loop stops the loop or moves a pointer past at
\* least one more posting entry, no pass moves a pointer back before an entry
\* it had passed, and the passes made never exceed the posting entries the call
\* can see plus one.
C31_Terminates ==
    [][Pass =>
          /\ \A j \in 1..Len(tags) :
                Passed(idsForTags, listPointers, j) \subseteq Passed(idsForTags', listPointers', j)
          /\ \/ ~keepGoing'
             \/ PassedTotal(idsForTags', listPointers', Len(tags))
                   > PassedTotal(idsForTags, listPointers, Len(tags))
          /\ PassesMade(idsForTags', listPointers', matchedItemIds', keepGoing')
                = PassesMade(idsForTags, listPointers, matchedItemIds, keepGoing) + 1
          /\ PassesMade(idsForTags', listPointers', matchedItemIds', keepGoing')
                <= EntriesAfter(Len(tags)) + 1]_vars

\* A call with a pagination key on two tags has returned after it matched an id,
\* passed every entry it could see and stopped.
C31_Witness ==
    /\ pc = "returned"
    /\ Len(tags) = 2
    /\ IsSome(paginationKey)
    /\ ~keepGoing
    /\ Len(matchedItemIds) >= 1
    /\ PassedTotal(idsForTags, listPointers, 2) >= 3

\* ------------------------------------------ properties of the tags' cursors
\* The response to the query a pass issues for tag j.
OwnRefill(j) ==
    listIdsFromDbUsingTags(table, lekAtLimit, tags[j][1], tags[j][2],
                           resultsForTags[j].key, Some(OrDefault(count)))

\* C32: a pass changes the page, the pointer and the pagination key of a tag
\* only by that tag's own page load or by advancing that tag's pointer by one:
\* a tag the pass does not query keeps its page and its key and has its pointer
\* advanced by one at most; a tag the pass queries gets the response to its own
\* query, and its page and pointer stay when that response has no rows; several
\* pointers are advanced only by a match, which advances every pointer.
C32_CursorsIndependent ==
    [][Pass =>
          /\ \A j \in 1..Len(tags) :
                IF QueriedFor(j)
                THEN /\ resultsForTags'[j] = OwnRefill(j)
                     /\ IF IsSome(OwnRefill(j).ids)
                        THEN /\ idsForTags'[j] = Get(OwnRefill(j).ids)
                             /\ listPointers'[j] \in {0, 1}
                        ELSE /\ idsForTags'[j] = idsForTags[j]
                             /\ listPointers'[j] = listPointers[j]
                ELSE /\ resultsForTags'[j] = resultsForTags[j]
                     /\ idsForTags'[j] = idsForTags[j]
                     /\ listPointers'[j] \in {listPointers[j], listPointers[j] + 1}
          /\ Cardinality(Advanced) > 1 =>
                /\ Advanced = 1..Len(tags)
                /\ Len(matchedItemIds') = Len(matchedItemIds) + 1]_vars

\* A call on three tags has loaded second pages for its first and third tags
\* while the second tag is still on its first page, pointer at 2.
C32_Witness ==
    /\ pc = "merge"
    /\ Len(tags) = 3
    /\ Len(queries) = 5
    /\ queries[4].hash = <<"tag">> \o tags[1][1]
    /\ queries[5].hash = <<"tag">> \o tags[3][1]
    /\ listPointers = <<1, 2, 1>>
    /\ Len(matchedItemIds) = 2

\* ---------------------------------------- properties of the retry budgets
\* The store call k reported unprocessed items and the batch call went on to a
\* store call for exactly those items: the next store call, made one call
\* deeper, or the one the retry is about to make.
RetriedBy(k) ==
    IF k < Len(calls)
    THEN /\ calls[k + 1].depth = calls[k].depth + 1
         /\ calls[k + 1].request = calls[k].unprocessed
    ELSE /\ InBatch
         /\ Len(stack) = calls[k].depth + 1

\* C33: the items a store call of a batch reports as unprocessed are retried
\* with at least one store call, however many earlier chunks of the batch were
\* retried.
C33_OwnRetryBudget ==
    \A k \in 1..Len(calls) : calls[k].unprocessed # <<>> => RetriedBy(k)

\* ------------------------------------------ properties of the merge invariant
\* The matched ids as a set.
MatchedSet == {matchedItemIds[i] : i \in 1..Len(matchedItemIds)}

\* C34: in the merge loop, every id a tag's pointer has moved past is a matched
\* id or is missing from the posting list of some tag, and every matched id is
\* in the posting list of every tag.
C34_MergeInvariant ==
    pc = "merge" =>
       /\ \A j \in 1..Len(tags) : \A id \in Passed(idsForTags, listPointers, j) :
             \/ id \in MatchedSet
             \/ \E i \in 1..Len(tags) : id \notin PostingIds(table, tags[i])
       /\ \A id \in MatchedSet : \A i \in 1..Len(tags) : id \in PostingIds(table, tags[i])

\* A call on three tags has matched an id and moved a pointer past an id that
\* one of the tags lacks.
C34_Witness ==
    /\ pc = "merge"
    /\ Len(tags) = 3
    /\ Len(matchedItemIds) >= 1
    /\ keepGoing
    /\ \E j \in 1..3 : \E id \in Passed(idsForTags, listPointers, j) : id \notin MatchedSet

\* ------------------------------------- properties of throttling on the writes
\* One store call of the running batchWriteAll reported unprocessed items, and
\* the retry of exactly those items was accepted in full, like every other call.
ThrottledOnce ==
    /\ Saving
    /\ \E k \in 1..(Len(calls) - 1) :
          /\ calls[k].unprocessed # <<>>
          /\ calls[k + 1].request = calls[k].unprocessed
          /\ \A h \in 1..Len(calls) : h # k => calls[h].unprocessed = <<>>

\* C35: when a store call of batchWriteAll reports unprocessed items and their
\* retry is accepted in full, CreateService.process does not raise: it is
\* still writing, or it has returned the saved item.
C35_ThrottlingAbsorbed ==
    ThrottledOnce =>
       \/ pc = "batchWrite"
       \/ pc = "created" /\ Get(outcome).kind = "item" /\ Get(item) \in created

\* ------------------------------------------ properties of the list handler
\* C36: the response of the list handler carries pagination.nextToken equal to
\* the id of the token process returned, and no nextToken when process returned
\* no token.
C36_NextTokenIsProcessToken ==
    (pc = "responded" /\ ~IsSome(item)) =>
        IF IsSome(Get(outcome).of.token)
        THEN /\ IsSome(Get(outcome).response.pagination)
             /\ Get(Get(outcome).response.pagination).nextToken
                   = Some(Get(Get(outcome).of.token).id)
        ELSE \/ ~IsSome(Get(outcome).response.pagination)
             \/ ~IsSome(Get(Get(outcome).response.pagination).nextToken)

\* ------------------------------------------- properties of the posting keys
\* The ids of the tasks created with the tag tg (name and value).
PostedFor(tg) == {r.id : r \in {c \in created : \E i \in 1..Len(c.tags) : c.tags[i] = tg}}

\* C37: the id listIdsFromDbUsingTags reads from the posting key of a created
\* task's tag is the task's id, and the first page of a (name, value) listed
\* with the default count holds the ids of the tasks created with exactly that
\* name and value, whether or not a value holds the separator.
C37_PostingKeyRoundTrip ==
    /\ \A r \in created : \A i \in 1..Len(r.tags) :
          Split(TagDbItem(r.tags[i][1], r.tags[i][2], r.id).sk, 2) = r.id
    /\ (pc \in {"merge", "returned"} /\ Len(tags) = 1 /\ Len(queries) = 1) =>
          {idsForTags[1][i] : i \in 1..Len(idsForTags[1])} = PostedFor(tags[1])

\* ----------------------------------------- properties of the chunks' tables
\* C38: when every table of a batch request has at least one key / item, every
\* chunk the batch call holds has at least one key / item for every table it
\* lists.
C38_NoEmptyCollection ==
    (IsSome(batchRequest)
        /\ \A e \in 1..Len(Get(batchRequest).RequestItems) :
              Len(Get(batchRequest).RequestItems[e].items) > 0) =>
       \A f \in 1..Len(stack) : \A c \in 1..Len(stack[f].chunks) :
          \A e \in 1..Len(stack[f].chunks[c]) : Len(stack[f].chunks[c][e].items) > 0
====
